---- MODULE Spec2Model ----
(***************************************************************************)
(* Verification model of the nfo-xg batch engine.                          *)
(*                                                                         *)
(*   SpecStore : TaskManager (nfo_editor/batch/task_manager.py): the       *)
(*               registry of BatchTask objects, its registry lock, the     *)
(*               capacity gate and the TTL sweep, driven by several        *)
(*               threads.                                                  *)
(*   SpecApply : BatchProcessor.apply (nfo_editor/batch/processor.py) and  *)
(*               the BatchTask counters (nfo_editor/batch/models.py): the  *)
(*               coordinating threads, the per-file units that run on the  *)
(*               pool, and the per-task counter lock.                      *)
(*   SpecPool  : the applies of one thread on the executor it shares with  *)
(*               the units of other batches; SpecPoolFair adds fairness.   *)
(*   SpecSingleton : TaskManager.__new__: concurrent constructions of the  *)
(*               singleton.                                                *)
(*   SpecFile  : BatchProcessor.preview and apply on the files of a small  *)
(*               disk: scan, parse, mutation, validation and save of each  *)
(*               file, for one batch (field, value, mode, file list).      *)
(*   SpecList  : one apply on a frozen file list that may name a path      *)
(*               twice, in a directory that has gained a file since the    *)
(*               preview.                                                  *)
(*   SpecEvict : an apply of a registered task while the clock advances    *)
(*               and the store sweeps its expired tasks.                   *)
(*   SpecPreview : BatchProcessor.preview alone, on a directory of a few   *)
(*               candidate files.                                          *)
(*   SpecEngine : the preview step of the request layer: a preview, the    *)
(*               BatchTask built from it and its registration, and the     *)
(*               apply calls that follow.                                  *)
(*   SpecCalc  : the functions of the codec (XmlParser), the validator     *)
(*               and the engine, each applied to an input.                 *)
(***************************************************************************)
EXTENDS Integers, Sequences, FiniteSets, TLC

(***************************************************************************)
(* Program constants                                                       *)
(***************************************************************************)
MAX_CONCURRENT_TASKS == 5

CLEANUP_INTERVAL == 100

TTL_SECONDS == 1800

MAX_WORKERS == 10

MAX_FILES_PER_BATCH == 2000

MAX_SCAN_DEPTH == 50

(***************************************************************************)
(* Bounds of the model                                                     *)
(***************************************************************************)
\* task ids available to callers beyond the capacity of the store
ExtraIds == 1

\* the clock runs from TTL_SECONDS to TTL_SECONDS + MaxClockAdvance seconds;
\* a task handed to add was created at second 0, and expires as soon as the
\* clock advances, or at second MaxClockAdvance, and outlives the clock
MaxClockAdvance == 1

\* threads calling the TaskManager
NumThreads == 2

\* the store starts AddsToSweep successful adds before a multiple of
\* CLEANUP_INTERVAL and is driven AddsPastSweep successful adds beyond it
AddsToSweep == 5

AddsPastSweep == 1

\* threads calling BatchProcessor.apply
NumCallers == 2

\* apply calls started in one behaviour
MaxApplies == 2

\* files handed to apply in one behaviour, over all its calls (besides those
\* of an oversized list)
MaxUnits == 2

\* calls of TaskManager() in one behaviour
MaxConstructs == 4

\* files on the disk, and the longest file list, of a batch whose files the
\* model reads and writes
MaxListLen == 1

\* preview calls in one behaviour
MaxPreviews == 1

\* candidate files of a directory whose preview the model follows
MaxScanned == 2

\* the longest genre list, and director list, of a record handed to
\* _apply_field
MaxEntries == 2

\* the most actors of a record handed to format_xml
MaxActors == 2

\* the most top-level elements of a document handed to parse_string
MaxChildren == 3

VARIABLES
    \* ---- TaskManager ----
    _tasks,         \* TaskManager._tasks: task_id -> BatchTask (NoTask: key absent)
    _add_count,     \* TaskManager._add_count
    _tasks_lock,    \* owner of TaskManager._tasks_lock (NoThread: free)
    now,            \* datetime.now(), in seconds
    pc,             \* position of each TaskManager thread
    arg,            \* the task a thread inside add is holding
    ret,            \* what the call that is returning returns or raises
                    \* (for apply: what the call that has just ended did)
    \* ---- BatchTask being applied ----
    task,           \* the mutable fields of the BatchTask object
    _count_lock,    \* owner of BatchTask._count_lock (NoOwner: free)
    \* ---- BatchProcessor.apply ----
    call,           \* per caller: position and locals of its apply call
    unit,           \* per caller: the futures of its per-file units
    napplies,       \* apply calls that got past the argument checks so far
    nunits,         \* files handed to those calls so far
    others,         \* pool workers running units of other batches
    \* ---- TaskManager.__new__ ----
    _instance,      \* TaskManager._instance (NoObject: None)
    _lock,          \* owner of TaskManager._lock (NoThread: free)
    heap,           \* the TaskManager objects allocated so far: per object
                    \* the set of attributes that have been assigned
    cpc,            \* position of each thread inside TaskManager()
    ref,            \* per thread: the reference its last TaskManager() returned
    returned,       \* every reference TaskManager() has returned
    nctor,          \* calls of TaskManager() so far
    \* ---- the files of a batch ----
    disk,           \* path -> content of the file
    disk0,          \* the disk before the batch
    flist,          \* the file list of the batch, as paths
    fargs,          \* field, value and mode of the batch
    work,           \* per apply call and unit: the locals of _apply_file
    accessed,       \* the paths parsed, and those written, so far
    pvout,          \* the running preview: what its units returned, and
                    \* its preview_files
    npreviews,      \* preview calls so far
    \* ---- the functions of the codec, the validator and the engine ----
    calc            \* a function applied to an input: its name, the input
                    \* and the values computed from it so far

storeVars == <<_tasks, _add_count, _tasks_lock, now, pc, arg>>

applyVars == <<task, _count_lock, call, unit, napplies, nunits>>

ctorVars == <<_instance, _lock, heap, cpc, ref, returned, nctor>>

fileVars == <<disk, disk0, flist, fargs, work, accessed, pvout, npreviews>>

\* what the actions of the store, and those of apply, leave alone
notStore == <<applyVars, others, ctorVars, fileVars, calc>>

notApply == <<storeVars, others, ctorVars, fileVars, calc>>

\* ... and those of TaskManager()
notCtor == <<storeVars, ret, applyVars, others, fileVars, calc>>

vars == <<_tasks, _add_count, _tasks_lock, now, pc, arg, ret,
          task, _count_lock, call, unit, napplies, nunits, others,
          _instance, _lock, heap, cpc, ref, returned, nctor,
          disk, disk0, flist, fargs, work, accessed, pvout, npreviews,
          calc>>

(***************************************************************************)
(* TaskManager                                                             *)
(***************************************************************************)
TaskIds == 1..(MAX_CONCURRENT_TASKS + ExtraIds)

CreatedTimes == {0, MaxClockAdvance}

Threads == 1..NumThreads

NoTask == [task_id |-> 0]

NoThread == 0

\* A BatchTask as the TaskManager sees it: the store reads task_id and
\* created_at only.
StoreTasks == [task_id : TaskIds, created_at : CreatedTimes]

NoRet == [op |-> "none"]

NoObject == 0

\* the attributes __new__ assigns on the new instance, in its order
Attributes == <<"_tasks", "_TTL_SECONDS", "_tasks_lock", "_add_count">>

\* no preview is running
NoPreview == [entry |-> <<>>, files |-> <<>>]

\* no batch on any file
FilesAtRest ==
    /\ disk = <<>>
    /\ disk0 = <<>>
    /\ flist = <<>>
    /\ fargs = [field |-> "", value |-> "", mode |-> ""]
    /\ work = <<>>
    /\ accessed = [read |-> {}, written |-> {}]
    /\ pvout = NoPreview
    /\ npreviews = 0

\* no function is being applied
NoCalc == [fn |-> "none", in |-> <<>>, out |-> <<>>]

CalcAtRest == calc = NoCalc

\* the state of the class before the first TaskManager()
CtorAtRest ==
    /\ _instance = NoObject
    /\ _lock = NoThread
    /\ heap = <<>>
    /\ cpc = [t \in Threads |-> "idle"]
    /\ ref = [t \in Threads |-> NoObject]
    /\ returned = {}
    /\ nctor = 0

Callers == 1..NumCallers

\* the task ids handed to apply: RegisteredId is in the store, the other not
RegisteredId == 1

ApplyIds == {RegisteredId, RegisteredId + 1}

\* the lengths of the file lists handed to apply: those whose units the
\* model runs, and the two around the ceiling
FileCounts == (0..MaxUnits) \cup {MAX_FILES_PER_BATCH, MAX_FILES_PER_BATCH + 1}

\* holders of BatchTask._count_lock: <<c, 0>> is the thread running caller
\* c's apply, <<c, i>> the pool worker running its i-th unit
NoOwner == <<0, 0>>

\* a caller outside apply; inside, nfiles is len(files), joined the futures
\* as_completed has yielded, ok those of them that returned True, tmp the
\* counter value read inside increment_processed
IdleCall == [pc |-> "idle", nfiles |-> 0, joined |-> 0, ok |-> 0, tmp |-> 0]

\* a submitted unit, and one whose future the caller has consumed
QueuedUnit == [pc |-> "queued", res |-> "none", tmp |-> 0]

JoinedUnit == [pc |-> "joined", res |-> "none", tmp |-> 0]

\* the fields of a freshly previewed BatchTask: Pending, zero counters
NewTask ==
    [status |-> "pending", total_files |-> 0, processed_files |-> 0,
     success_count |-> 0, failed_count |-> 0, errors |-> <<>>]

\* len(self._tasks)
Len_tasks(ts) == Cardinality({i \in TaskIds : ts[i] # NoTask})

\* task.created_at < datetime.now() - timedelta(seconds=self._TTL_SECONDS)
Expired_Inclusive(t, clock) == t.created_at <= clock - TTL_SECONDS

Expired(t, clock) == t.created_at < clock - TTL_SECONDS

\* the ids collected in expired_ids
ExpiredIds(ts, clock) == {i \in TaskIds : ts[i] # NoTask /\ Expired(ts[i], clock)}

\* TaskManager._cleanup_expired_unlocked: the registry after the deletions
CleanupExpiredUnlocked_SpareRunning(ts, clock) ==
    [i \in TaskIds |->
        IF i \in ExpiredIds(ts, clock) /\ ~(i = RegisteredId /\ task.status = "running")
        THEN NoTask ELSE ts[i]]

CleanupExpiredUnlocked(ts, clock) ==
    [i \in TaskIds |-> IF i \in ExpiredIds(ts, clock) THEN NoTask ELSE ts[i]]

\* ... and its return value
CleanupExpiredCount(ts, clock) == Cardinality(ExpiredIds(ts, clock))

\* "with self._tasks_lock:" may be entered
LockFree_NoLock(l) == TRUE

LockFree(l) == l = NoThread

\* len(self._tasks) >= self.MAX_CONCURRENT_TASKS
AtCapacity_OffByOne(ts) == Len_tasks(ts) > MAX_CONCURRENT_TASKS

AtCapacity(ts) == Len_tasks(ts) >= MAX_CONCURRENT_TASKS

\* self._tasks[task.task_id] = task
Insert_KeepExisting(ts, t) ==
    IF ts[t.task_id] # NoTask THEN ts ELSE [ts EXCEPT ![t.task_id] = t]

Insert(ts, t) == [ts EXCEPT ![t.task_id] = t]

\* self._add_count % self.CLEANUP_INTERVAL == 0
SweepDue_Always(n) == TRUE

SweepDue_Never(n) == FALSE

SweepDue(n) == n % CLEANUP_INTERVAL = 0

\* Every operation of the TaskManager runs inside "with self._tasks_lock:".
\* Its first step takes the lock; its result (ret) is computed inside the
\* block, and Return leaves the block, which releases the lock.
\*
\* add, lines 38-45: the lock is taken and the capacity gate is evaluated,
\* with its opportunistic sweep; the call either raises or goes on to the
\* insertion.
AddEnter_RaiseAfterSweep(t, new) ==
    /\ pc[t] = "idle"
    /\ LockFree(_tasks_lock)
    /\ _add_count < CLEANUP_INTERVAL + AddsPastSweep
    /\ _tasks_lock' = t
    /\ LET swept == IF AtCapacity(_tasks)
                    THEN CleanupExpiredUnlocked(_tasks, now)
                    ELSE _tasks
           raise == AtCapacity(_tasks)
       IN  /\ _tasks' = swept
           /\ IF raise
              THEN /\ ret' = [op |-> "add", task |-> new, val |-> "RuntimeError"]
                   /\ pc' = [pc EXCEPT ![t] = "return"]
                   /\ arg' = arg
              ELSE /\ ret' = NoRet
                   /\ pc' = [pc EXCEPT ![t] = "add_insert"]
                   /\ arg' = [arg EXCEPT ![t] = new]
    /\ UNCHANGED <<_add_count, now>>
    /\ UNCHANGED notStore

AddEnter_EvictOldest(t, new) ==
    /\ pc[t] = "idle"
    /\ LockFree(_tasks_lock)
    /\ _add_count < CLEANUP_INTERVAL + AddsPastSweep
    /\ _tasks_lock' = t
    /\ LET swept == IF AtCapacity(_tasks)
                    THEN CleanupExpiredUnlocked(_tasks, now)
                    ELSE _tasks
           oldest == CHOOSE i \in TaskIds :
                        /\ swept[i] # NoTask
                        /\ \A j \in TaskIds :
                              swept[j] # NoTask =>
                                 \/ swept[i].created_at < swept[j].created_at
                                 \/ swept[i].created_at = swept[j].created_at /\ i <= j
       IN  /\ _tasks' = IF AtCapacity(_tasks) /\ AtCapacity(swept)
                        THEN [swept EXCEPT ![oldest] = NoTask]
                        ELSE swept
           /\ ret' = NoRet
           /\ pc' = [pc EXCEPT ![t] = "add_insert"]
           /\ arg' = [arg EXCEPT ![t] = new]
    /\ UNCHANGED <<_add_count, now>>
    /\ UNCHANGED notStore

AddEnter(t, new) ==
    /\ pc[t] = "idle"
    /\ LockFree(_tasks_lock)
    /\ _add_count < CLEANUP_INTERVAL + AddsPastSweep
    /\ _tasks_lock' = t
    /\ LET swept == IF AtCapacity(_tasks)
                    THEN CleanupExpiredUnlocked(_tasks, now)
                    ELSE _tasks
           raise == AtCapacity(_tasks) /\ AtCapacity(swept)
       IN  /\ _tasks' = swept
           /\ IF raise
              THEN /\ ret' = [op |-> "add", task |-> new, val |-> "RuntimeError"]
                   /\ pc' = [pc EXCEPT ![t] = "return"]
                   /\ arg' = arg
              ELSE /\ ret' = NoRet
                   /\ pc' = [pc EXCEPT ![t] = "add_insert"]
                   /\ arg' = [arg EXCEPT ![t] = new]
    /\ UNCHANGED <<_add_count, now>>
    /\ UNCHANGED notStore

\* add without its line 46: the add counter moves, the task is not stored
AddInsert_NoInsert(t) ==
    /\ pc[t] = "add_insert"
    /\ _add_count' = _add_count + 1
    /\ pc' = [pc EXCEPT ![t] = "add_sweep"]
    /\ UNCHANGED <<_tasks, _tasks_lock, now, arg, ret>>
    /\ UNCHANGED notStore

\* add, lines 46-47: the insertion and the add counter
AddInsert(t) ==
    /\ pc[t] = "add_insert"
    /\ _tasks' = Insert(_tasks, arg[t])
    /\ _add_count' = _add_count + 1
    /\ pc' = [pc EXCEPT ![t] = "add_sweep"]
    /\ UNCHANGED <<_tasks_lock, now, arg, ret>>
    /\ UNCHANGED notStore

\* add, lines 48-50: the periodic sweep; add is about to return None
AddSweep(t) ==
    /\ pc[t] = "add_sweep"
    /\ _tasks' = IF SweepDue(_add_count)
                 THEN CleanupExpiredUnlocked(_tasks, now)
                 ELSE _tasks
    /\ pc' = [pc EXCEPT ![t] = "return"]
    /\ arg' = [arg EXCEPT ![t] = NoTask]
    /\ ret' = [op |-> "add", task |-> arg[t], val |-> "ok"]
    /\ UNCHANGED <<_add_count, _tasks_lock, now>>
    /\ UNCHANGED notStore

\* get
Get(t, id) ==
    /\ pc[t] = "idle"
    /\ LockFree(_tasks_lock)
    /\ _tasks_lock' = t
    /\ pc' = [pc EXCEPT ![t] = "return"]
    /\ ret' = [op |-> "get", id |-> id, val |-> _tasks[id]]
    /\ UNCHANGED <<_tasks, _add_count, now, arg>>
    /\ UNCHANGED notStore

\* delete
Delete_KeepsEntry(t, id) ==
    /\ pc[t] = "idle"
    /\ LockFree(_tasks_lock)
    /\ _tasks_lock' = t
    /\ pc' = [pc EXCEPT ![t] = "return"]
    /\ _tasks' = _tasks
    /\ ret' = [op |-> "delete", id |-> id, val |-> _tasks[id] # NoTask]
    /\ UNCHANGED <<_add_count, now, arg>>
    /\ UNCHANGED notStore

Delete(t, id) ==
    /\ pc[t] = "idle"
    /\ LockFree(_tasks_lock)
    /\ _tasks_lock' = t
    /\ pc' = [pc EXCEPT ![t] = "return"]
    /\ IF _tasks[id] # NoTask
       THEN /\ _tasks' = [_tasks EXCEPT ![id] = NoTask]
            /\ ret' = [op |-> "delete", id |-> id, val |-> TRUE]
       ELSE /\ _tasks' = _tasks
            /\ ret' = [op |-> "delete", id |-> id, val |-> FALSE]
    /\ UNCHANGED <<_add_count, now, arg>>
    /\ UNCHANGED notStore

\* list_all
ListAll(t) ==
    /\ pc[t] = "idle"
    /\ LockFree(_tasks_lock)
    /\ _tasks_lock' = t
    /\ pc' = [pc EXCEPT ![t] = "return"]
    /\ ret' = [op |-> "list_all", val |-> {_tasks[i] : i \in TaskIds} \ {NoTask}]
    /\ UNCHANGED <<_tasks, _add_count, now, arg>>
    /\ UNCHANGED notStore

\* cleanup_expired
CleanupExpired(t) ==
    /\ pc[t] = "idle"
    /\ LockFree(_tasks_lock)
    /\ _tasks_lock' = t
    /\ pc' = [pc EXCEPT ![t] = "return"]
    /\ _tasks' = CleanupExpiredUnlocked(_tasks, now)
    /\ ret' = [op |-> "cleanup_expired", val |-> CleanupExpiredCount(_tasks, now)]
    /\ UNCHANGED <<_add_count, now, arg>>
    /\ UNCHANGED notStore

\* the end of the "with self._tasks_lock:" block: the lock is released and
\* the caller has its result
Return(t) ==
    /\ pc[t] = "return"
    /\ _tasks_lock' = NoThread
    /\ pc' = [pc EXCEPT ![t] = "idle"]
    /\ ret' = NoRet
    /\ UNCHANGED <<_tasks, _add_count, now, arg>>
    /\ UNCHANGED notStore

\* the wall clock advances
Tick ==
    /\ now < TTL_SECONDS + MaxClockAdvance
    /\ now' = now + 1
    /\ UNCHANGED <<_tasks, _add_count, _tasks_lock, pc, arg, ret>>
    /\ UNCHANGED notStore

\* TaskManager.__new__, lines 23-26, for a manager that has already served
\* CLEANUP_INTERVAL - AddsToSweep adds whose tasks have all been deleted
\* again; the apply machinery is at rest.
InitStore ==
    /\ _tasks = [i \in TaskIds |-> NoTask]
    /\ _add_count = CLEANUP_INTERVAL - AddsToSweep
    /\ _tasks_lock = NoThread
    /\ now = TTL_SECONDS
    /\ pc = [t \in Threads |-> "idle"]
    /\ arg = [t \in Threads |-> NoTask]
    /\ ret = NoRet
    /\ task = NewTask
    /\ _count_lock = NoOwner
    /\ call = [c \in Callers |-> IdleCall]
    /\ unit = [c \in Callers |-> <<>>]
    /\ napplies = 0
    /\ nunits = 0
    /\ others = 0
    /\ CtorAtRest
    /\ FilesAtRest
    /\ CalcAtRest

NextStore ==
    \/ \E t \in Threads, new \in StoreTasks : AddEnter(t, new)
    \/ \E t \in Threads : AddInsert(t)
    \/ \E t \in Threads : AddSweep(t)
    \/ \E t \in Threads, id \in TaskIds : Get(t, id)
    \/ \E t \in Threads, id \in TaskIds : Delete(t, id)
    \/ \E t \in Threads : ListAll(t)
    \/ \E t \in Threads : CleanupExpired(t)
    \/ \E t \in Threads : Return(t)
    \/ Tick

SpecStore == InitStore /\ [][NextStore]_vars

(***************************************************************************)
(* BatchTask and BatchProcessor.apply                                      *)
(***************************************************************************)
\* "with self._count_lock:" may be entered
CountLockFree_NoLock(l) == TRUE

CountLockFree(l) == l = NoOwner

\* units of the pool that occupy a worker
Running(u) == u.pc \in {"running", "locked", "append"}

BusyWorkers ==
    Cardinality({ci \in Callers \X (1..MaxUnits) :
                   /\ ci[2] <= Len(unit[ci[1]])
                   /\ Running(unit[ci[1]][ci[2]])})
    + others

\* apply, lines 296-299: the terminal status
FinalStatus(t) ==
    IF t.failed_count > 0 /\ t.success_count = 0 THEN "failed" ELSE "completed"

\* len(files) > MAX_FILES_PER_BATCH
TooManyFiles_Inclusive(n) == n >= MAX_FILES_PER_BATCH

TooManyFiles(n) == n > MAX_FILES_PER_BATCH

\* apply, lines 256-264: the task lookup and the file-count ceiling; either
\* raises before anything is touched.  The files of a list of up to MaxUnits
\* entries are drawn from the budget of the behaviour.
ApplyEnter(c, id, n) ==
    /\ call[c].pc = "idle"
    /\ napplies < MaxApplies
    /\ n <= MaxUnits => nunits + n <= MaxUnits
    /\ LockFree(_tasks_lock)
    /\ IF _tasks[id] = NoTask
       THEN /\ ret' = [op |-> "apply", caller |-> c, val |-> "ValueError",
                       id |-> id, nfiles |-> n]
            /\ UNCHANGED <<call, napplies, nunits>>
       ELSE IF TooManyFiles(n)
       THEN /\ ret' = [op |-> "apply", caller |-> c, val |-> "RuntimeError",
                       id |-> id, nfiles |-> n]
            /\ UNCHANGED <<call, napplies, nunits>>
       ELSE /\ ret' = NoRet
            /\ call' = [call EXCEPT ![c] = [IdleCall EXCEPT !.pc = "set_status",
                                                             !.nfiles = n]]
            /\ napplies' = napplies + 1
            /\ nunits' = nunits + (IF n <= MaxUnits THEN n ELSE 0)
    /\ UNCHANGED <<task, _count_lock, unit>>
    /\ UNCHANGED notApply

\* apply, line 267.  The model follows a call beyond its argument checks
\* when its list has MaxUnits files at most.
ApplySetRunning(c) ==
    /\ call[c].pc = "set_status"
    /\ call[c].nfiles <= MaxUnits
    /\ task' = [task EXCEPT !.status = "running"]
    /\ call' = [call EXCEPT ![c].pc = "set_total"]
    /\ ret' = NoRet
    /\ UNCHANGED <<_count_lock, unit, napplies, nunits>>
    /\ UNCHANGED notApply

\* apply, line 268
ApplySetTotal(c) ==
    /\ call[c].pc = "set_total"
    /\ task' = [task EXCEPT !.total_files = call[c].nfiles]
    /\ call' = [call EXCEPT ![c].pc = "submit"]
    /\ ret' = NoRet
    /\ UNCHANGED <<_count_lock, unit, napplies, nunits>>
    /\ UNCHANGED notApply

\* apply, lines 271-282: one executor.submit per file of the list.  A
\* submitted unit does nothing until a pool worker takes it, so the loop is
\* one step.
ApplySubmit(c) ==
    /\ call[c].pc = "submit"
    /\ unit' = [unit EXCEPT ![c] = [i \in 1..call[c].nfiles |-> QueuedUnit]]
    /\ call' = [call EXCEPT ![c].pc = "join"]
    /\ ret' = NoRet
    /\ UNCHANGED <<task, _count_lock, napplies, nunits>>
    /\ UNCHANGED notApply

\* a free pool worker takes a queued unit (ThreadPoolExecutor(max_workers));
\* the executor's work queue hands out the units of a call in the order of
\* their submission
UnitStart_ThreadPerUnit(c, i) ==
    /\ i \in 1..Len(unit[c])
    /\ unit[c][i].pc = "queued"
    /\ \A j \in 1..(i - 1) : unit[c][j].pc # "queued"
    /\ unit' = [unit EXCEPT ![c][i].pc = "running"]
    /\ ret' = NoRet
    /\ UNCHANGED <<task, _count_lock, call, napplies, nunits>>
    /\ UNCHANGED notApply

UnitStart(c, i) ==
    /\ i \in 1..Len(unit[c])
    /\ unit[c][i].pc = "queued"
    /\ \A j \in 1..(i - 1) : unit[c][j].pc # "queued"
    /\ BusyWorkers < MAX_WORKERS
    /\ unit' = [unit EXCEPT ![c][i].pc = "running"]
    /\ ret' = NoRet
    /\ UNCHANGED <<task, _count_lock, call, napplies, nunits>>
    /\ UNCHANGED notApply

\* _apply_file, lines 219-238: parse, mutate, validate and save either all
\* go through (res = "ok") or one of them raises (res = "err"); then
\* increment_success / increment_failed takes the lock and reads the
\* counter.  The file work touches nothing of the task, so it is taken
\* together with the step that enters the lock ...
UnitRun(c, i, res) ==
    /\ i \in 1..Len(unit[c])
    /\ unit[c][i].pc = "running"
    /\ CountLockFree(_count_lock)
    /\ _count_lock' = <<c, i>>
    /\ unit' = [unit EXCEPT ![c][i] = [pc |-> "locked", res |-> res,
                                       tmp |-> IF res = "ok"
                                               THEN task.success_count
                                               ELSE task.failed_count]]
    /\ ret' = NoRet
    /\ UNCHANGED <<task, call, napplies, nunits>>
    /\ UNCHANGED notApply

\* ... and the counter is written back incremented.  increment_success
\* then leaves the lock and the future completes; increment_failed goes on
\* to its second statement.
UnitIncWrite(c, i) ==
    /\ i \in 1..Len(unit[c])
    /\ unit[c][i].pc = "locked"
    /\ IF unit[c][i].res = "ok"
       THEN /\ task' = [task EXCEPT !.success_count = unit[c][i].tmp + 1]
            /\ _count_lock' = NoOwner
            /\ unit' = [unit EXCEPT ![c][i].pc = "done", ![c][i].tmp = 0]
       ELSE /\ task' = [task EXCEPT !.failed_count = unit[c][i].tmp + 1]
            /\ _count_lock' = _count_lock
            /\ unit' = [unit EXCEPT ![c][i].pc = "append", ![c][i].tmp = 0]
    /\ ret' = NoRet
    /\ UNCHANGED <<call, napplies, nunits>>
    /\ UNCHANGED notApply

\* f"{filename}: {error_msg}": the name of the file, then the text of the
\* exception
ErrorString_NoName(filename, error_msg) == <<0, error_msg>>

ErrorString(filename, error_msg) == <<filename, error_msg>>

\* file_info.get('filename', 'unknown') of the i-th entry of a file list
FileName(i) == i

\* increment_failed, line 58: self.errors.append(...); the "with" block
\* ends, the lock is released and the future completes
UnitAppendError(c, i) ==
    /\ i \in 1..Len(unit[c])
    /\ unit[c][i].pc = "append"
    /\ task' = [task EXCEPT !.errors = Append(@, ErrorString(FileName(i), unit[c][i].res))]
    /\ _count_lock' = IF _count_lock = <<c, i>> THEN NoOwner ELSE _count_lock
    /\ unit' = [unit EXCEPT ![c][i].pc = "done"]
    /\ ret' = NoRet
    /\ UNCHANGED <<call, napplies, nunits>>
    /\ UNCHANGED notApply

\* the loop counts a future as processed as soon as its unit has started
ApplyProcessedAcquire_Started(c, i) ==
    /\ call[c].pc = "join"
    /\ i \in 1..Len(unit[c])
    /\ unit[c][i].pc \in {"running", "done"}
    /\ CountLockFree(_count_lock)
    /\ _count_lock' = <<c, 0>>
    /\ unit' = [unit EXCEPT ![c][i] = JoinedUnit]
    /\ call' = [call EXCEPT ![c].pc = "inc_processed",
                            ![c].joined = @ + 1,
                            ![c].ok = @ + (IF unit[c][i].res = "ok" THEN 1 ELSE 0),
                            ![c].tmp = task.processed_files]
    /\ ret' = NoRet
    /\ UNCHANGED <<task, napplies, nunits>>
    /\ UNCHANGED notApply

\* apply, lines 285-293: as_completed yields a finished future, its result
\* is taken, and increment_processed takes the lock and reads the counter ...
ApplyProcessedAcquire(c, i) ==
    /\ call[c].pc = "join"
    /\ i \in 1..Len(unit[c])
    /\ unit[c][i].pc = "done"
    /\ CountLockFree(_count_lock)
    /\ _count_lock' = <<c, 0>>
    /\ unit' = [unit EXCEPT ![c][i] = JoinedUnit]
    /\ call' = [call EXCEPT ![c].pc = "inc_processed",
                            ![c].joined = @ + 1,
                            ![c].ok = @ + (IF unit[c][i].res = "ok" THEN 1 ELSE 0),
                            ![c].tmp = task.processed_files]
    /\ ret' = NoRet
    /\ UNCHANGED <<task, napplies, nunits>>
    /\ UNCHANGED notApply

\* ... and writes it back incremented
ApplyProcessedWrite_NoIncrement(c) ==
    /\ call[c].pc = "inc_processed"
    /\ task' = [task EXCEPT !.processed_files = call[c].tmp]
    /\ _count_lock' = NoOwner
    /\ call' = [call EXCEPT ![c].pc = "join", ![c].tmp = 0]
    /\ ret' = NoRet
    /\ UNCHANGED <<unit, napplies, nunits>>
    /\ UNCHANGED notApply

ApplyProcessedWrite(c) ==
    /\ call[c].pc = "inc_processed"
    /\ task' = [task EXCEPT !.processed_files = call[c].tmp + 1]
    /\ _count_lock' = NoOwner
    /\ call' = [call EXCEPT ![c].pc = "join", ![c].tmp = 0]
    /\ ret' = NoRet
    /\ UNCHANGED <<unit, napplies, nunits>>
    /\ UNCHANGED notApply

\* apply, lines 285-293: the loop over as_completed(futures) ends when every
\* future has been yielded; an exception of future.result() is swallowed
AllJoined_UntilFailure(c) ==
    \/ call[c].joined = call[c].nfiles
    \/ call[c].joined > call[c].ok

AllJoined(c) == call[c].joined = call[c].nfiles

\* apply, lines 295-301: every future has been joined; the terminal status
\* is written and the task returned.  The two counters are read without the
\* lock; success_count only grows, so reading failed_count first and
\* success_count later decides as one read of both at the earlier moment.
ApplyFinish(c) ==
    /\ call[c].pc = "join"
    /\ AllJoined(c)
    /\ task' = [task EXCEPT !.status = FinalStatus(task)]
    /\ ret' = [op |-> "apply", caller |-> c, val |-> "ok", nfiles |-> call[c].nfiles,
               ok |-> call[c].ok, err |-> call[c].joined - call[c].ok]
    /\ call' = [call EXCEPT ![c] = IdleCall]
    /\ unit' = [unit EXCEPT ![c] = <<>>]
    /\ UNCHANGED <<_count_lock, napplies, nunits>>
    /\ UNCHANGED notApply

\* a task created with status Pending and zero counters is registered in
\* the store under RegisteredId; no apply has been called yet
InitApply ==
    /\ _tasks = [i \in TaskIds |-> IF i = RegisteredId
                                   THEN [task_id |-> i, created_at |-> 0]
                                   ELSE NoTask]
    /\ _add_count = 1
    /\ _tasks_lock = NoThread
    /\ now = TTL_SECONDS
    /\ pc = [t \in Threads |-> "idle"]
    /\ arg = [t \in Threads |-> NoTask]
    /\ ret = NoRet
    /\ task = NewTask
    /\ _count_lock = NoOwner
    /\ call = [c \in Callers |-> IdleCall]
    /\ unit = [c \in Callers |-> <<>>]
    /\ napplies = 0
    /\ nunits = 0
    /\ others = 0
    /\ CtorAtRest
    /\ FilesAtRest
    /\ CalcAtRest

NextApply ==
    \/ \E c \in Callers, id \in ApplyIds, n \in FileCounts : ApplyEnter(c, id, n)
    \/ \E c \in Callers : ApplySetRunning(c)
    \/ \E c \in Callers : ApplySetTotal(c)
    \/ \E c \in Callers : ApplySubmit(c)
    \/ \E c \in Callers, i \in 1..MaxUnits : UnitStart(c, i)
    \/ \E c \in Callers, i \in 1..MaxUnits, res \in {"ok", "err"} : UnitRun(c, i, res)
    \/ \E c \in Callers, i \in 1..MaxUnits : UnitIncWrite(c, i)
    \/ \E c \in Callers, i \in 1..MaxUnits : UnitAppendError(c, i)
    \/ \E c \in Callers, i \in 1..MaxUnits : ApplyProcessedAcquire(c, i)
    \/ \E c \in Callers : ApplyProcessedWrite(c)
    \/ \E c \in Callers : ApplyFinish(c)

SpecApply == InitApply /\ [][NextApply]_vars

(***************************************************************************)
(* The pool shared with other batches                                      *)
(***************************************************************************)
\* self.executor is one ThreadPoolExecutor(max_workers) per BatchProcessor:
\* the previews and applies of other tasks submit their units to it too.  A
\* free worker takes a unit of another batch ...
OtherStart ==
    /\ BusyWorkers < MAX_WORKERS
    /\ others' = others + 1
    /\ UNCHANGED <<storeVars, ret, applyVars, ctorVars, fileVars, calc>>

\* ... and the unit terminates, which frees the worker
OtherDone ==
    /\ others > 0
    /\ others' = others - 1
    /\ UNCHANGED <<storeVars, ret, applyVars, ctorVars, fileVars, calc>>

\* The applies of one coordinating thread, one after the other, against the
\* units of the other batches.
PoolCaller == 1

NextPool ==
    \/ \E id \in ApplyIds, n \in FileCounts : ApplyEnter(PoolCaller, id, n)
    \/ ApplySetRunning(PoolCaller)
    \/ ApplySetTotal(PoolCaller)
    \/ ApplySubmit(PoolCaller)
    \/ \E i \in 1..MaxUnits : UnitStart(PoolCaller, i)
    \/ \E i \in 1..MaxUnits, res \in {"ok", "err"} : UnitRun(PoolCaller, i, res)
    \/ \E i \in 1..MaxUnits : UnitIncWrite(PoolCaller, i)
    \/ \E i \in 1..MaxUnits : UnitAppendError(PoolCaller, i)
    \/ \E i \in 1..MaxUnits : ApplyProcessedAcquire(PoolCaller, i)
    \/ ApplyProcessedWrite(PoolCaller)
    \/ ApplyFinish(PoolCaller)
    \/ OtherStart
    \/ OtherDone

SpecPool == InitApply /\ [][NextPool]_vars

\* The applies of one coordinating thread on the registered task while the
\* clock advances and other threads sweep the store and look the task up.
NextEvict ==
    \/ \E id \in ApplyIds, n \in FileCounts : ApplyEnter(PoolCaller, id, n)
    \/ ApplySetRunning(PoolCaller)
    \/ ApplySetTotal(PoolCaller)
    \/ ApplySubmit(PoolCaller)
    \/ \E i \in 1..MaxUnits : UnitStart(PoolCaller, i)
    \/ \E i \in 1..MaxUnits, res \in {"ok", "err"} : UnitRun(PoolCaller, i, res)
    \/ \E i \in 1..MaxUnits : UnitIncWrite(PoolCaller, i)
    \/ \E i \in 1..MaxUnits : UnitAppendError(PoolCaller, i)
    \/ \E i \in 1..MaxUnits : ApplyProcessedAcquire(PoolCaller, i)
    \/ ApplyProcessedWrite(PoolCaller)
    \/ ApplyFinish(PoolCaller)
    \/ \E t \in Threads : CleanupExpired(t)
    \/ \E t \in Threads, id \in ApplyIds : Get(t, id)
    \/ \E t \in Threads : Return(t)
    \/ Tick

SpecEvict == InitApply /\ [][NextEvict]_vars

\* Every started piece of work terminates: the coordinating thread and a
\* unit that holds a worker keep running, a lock that is free is obtained,
\* and a unit of another batch ends.  The executor hands its workers to the
\* queued units in the order of submission, so a queued unit is not passed
\* over for ever by the units of other batches (strong fairness).
Fairness_NoQueueOrder ==
    /\ WF_vars(ApplySetRunning(PoolCaller))
    /\ WF_vars(ApplySetTotal(PoolCaller))
    /\ WF_vars(ApplySubmit(PoolCaller))
    /\ WF_vars(ApplyProcessedWrite(PoolCaller))
    /\ WF_vars(ApplyFinish(PoolCaller))
    /\ \A i \in 1..MaxUnits :
         /\ WF_vars(UnitStart(PoolCaller, i))
         /\ WF_vars(\E res \in {"ok", "err"} : UnitRun(PoolCaller, i, res))
         /\ WF_vars(UnitIncWrite(PoolCaller, i))
         /\ WF_vars(UnitAppendError(PoolCaller, i))
         /\ WF_vars(ApplyProcessedAcquire(PoolCaller, i))
    /\ WF_vars(OtherDone)

Fairness ==
    /\ WF_vars(ApplySetRunning(PoolCaller))
    /\ WF_vars(ApplySetTotal(PoolCaller))
    /\ WF_vars(ApplySubmit(PoolCaller))
    /\ WF_vars(ApplyProcessedWrite(PoolCaller))
    /\ WF_vars(ApplyFinish(PoolCaller))
    /\ \A i \in 1..MaxUnits :
         /\ SF_vars(UnitStart(PoolCaller, i))
         /\ WF_vars(\E res \in {"ok", "err"} : UnitRun(PoolCaller, i, res))
         /\ WF_vars(UnitIncWrite(PoolCaller, i))
         /\ WF_vars(UnitAppendError(PoolCaller, i))
         /\ WF_vars(ApplyProcessedAcquire(PoolCaller, i))
    /\ WF_vars(OtherDone)

SpecPoolFair == SpecPool /\ Fairness

(***************************************************************************)
(* TaskManager.__new__                                                     *)
(***************************************************************************)
\* "with cls._lock:" may be entered
ClassLockFree_NoLock(l) == TRUE

ClassLockFree(l) == l = NoThread

\* line 19: the first test of cls._instance, outside the lock.  The caller
\* is any thread, among them one that runs BatchProcessor.__init__
\* (processor.py line 30).
CtorCheck(t) ==
    /\ cpc[t] = "idle"
    /\ nctor < MaxConstructs
    /\ nctor' = nctor + 1
    /\ cpc' = [cpc EXCEPT ![t] = IF _instance = NoObject THEN "acquire" ELSE "return"]
    /\ UNCHANGED <<_instance, _lock, heap, ref, returned>>
    /\ UNCHANGED notCtor

\* lines 20-21: the class lock is taken and cls._instance tested again
CtorAcquire(t) ==
    /\ cpc[t] = "acquire"
    /\ ClassLockFree(_lock)
    /\ IF _instance = NoObject
       THEN /\ _lock' = t
            /\ cpc' = [cpc EXCEPT ![t] = "alloc"]
       ELSE /\ _lock' = _lock
            /\ cpc' = [cpc EXCEPT ![t] = "return"]
    /\ UNCHANGED <<_instance, heap, ref, returned, nctor>>
    /\ UNCHANGED notCtor

\* line 22: cls._instance = super().__new__(cls), an object without any of
\* the attributes yet
CtorAlloc(t) ==
    /\ cpc[t] = "alloc"
    /\ heap' = Append(heap, {})
    /\ _instance' = Len(heap) + 1
    /\ cpc' = [cpc EXCEPT ![t] = "assign"]
    /\ UNCHANGED <<_lock, ref, returned, nctor>>
    /\ UNCHANGED notCtor

\* lines 23-26: cls._instance.<attribute> = ..., one attribute per step in
\* the order of the source; after the last one the "with" block ends and the
\* lock is released
CtorAssign(t) ==
    /\ cpc[t] = "assign"
    /\ LET k == Cardinality(heap[_instance]) + 1
       IN  /\ heap' = [heap EXCEPT ![_instance] = @ \cup {Attributes[k]}]
           /\ IF k = Len(Attributes)
              THEN /\ cpc' = [cpc EXCEPT ![t] = "return"]
                   /\ _lock' = IF _lock = t THEN NoThread ELSE _lock
              ELSE UNCHANGED <<cpc, _lock>>
    /\ UNCHANGED <<_instance, ref, returned, nctor>>
    /\ UNCHANGED notCtor

\* line 27: return cls._instance
CtorReturn(t) ==
    /\ cpc[t] = "return"
    /\ ref' = [ref EXCEPT ![t] = _instance]
    /\ returned' = returned \cup {_instance}
    /\ cpc' = [cpc EXCEPT ![t] = "idle"]
    /\ UNCHANGED <<_instance, _lock, heap, nctor>>
    /\ UNCHANGED notCtor

\* the class before its first construction; no TaskManager exists, so the
\* registry and the apply machinery are at rest
InitSingleton ==
    /\ CtorAtRest
    /\ _tasks = [i \in TaskIds |-> NoTask]
    /\ _add_count = 0
    /\ _tasks_lock = NoThread
    /\ now = TTL_SECONDS
    /\ pc = [t \in Threads |-> "idle"]
    /\ arg = [t \in Threads |-> NoTask]
    /\ ret = NoRet
    /\ task = NewTask
    /\ _count_lock = NoOwner
    /\ call = [c \in Callers |-> IdleCall]
    /\ unit = [c \in Callers |-> <<>>]
    /\ napplies = 0
    /\ nunits = 0
    /\ others = 0
    /\ FilesAtRest
    /\ CalcAtRest

NextSingleton ==
    \/ \E t \in Threads : CtorCheck(t)
    \/ \E t \in Threads : CtorAcquire(t)
    \/ \E t \in Threads : CtorAlloc(t)
    \/ \E t \in Threads : CtorAssign(t)
    \/ \E t \in Threads : CtorReturn(t)

SpecSingleton == InitSingleton /\ [][NextSingleton]_vars

(***************************************************************************)
(* The files of a batch: NfoData, validation, _apply_field, _apply_file,   *)
(* _scan_nfo_files, _preview_file, preview                                 *)
(***************************************************************************)
Paths == 1..MaxListLen

\* what XmlParser.parse makes of a file: a file that is missing, unreadable
\* or not well-formed XML raises; any other yields an NfoData, of which the
\* batch engine reads and validates these fields
Malformed == [kind |-> "malformed"]

Blank ==
    [kind |-> "nfo", studio |-> "", genres |-> <<>>, directors |-> <<>>,
     year |-> "", rating |-> "", runtime |-> ""]

Full ==
    [kind |-> "nfo", studio |-> "S", genres |-> <<"G">>, directors |-> <<"D">>,
     year |-> "2000", rating |-> "7.5", runtime |-> "90"]

BadYear == [Full EXCEPT !.year = "1899"]

\* besides these, a record with a rating above 10 and one with a runtime of 0
Contents ==
    {Malformed, Blank, Full, BadYear,
     [Full EXCEPT !.rating = "10.01"], [Full EXCEPT !.runtime = "0"]}

\* field, value and mode as BatchProcessor receives them (the processor
\* itself does not restrict them)
BatchArgs ==
    [field : {"studio", "genre", "director", "title"}, value : {"V"},
     mode : {"overwrite", "append", "merge"}]

\* The texts handed to the validators.  s.strip() of a text:
Strip(s) ==
    CASE s = "  " -> ""
      [] s = " 2000 " -> "2000"
      [] OTHER -> s

\* the texts int() accepts, the texts float() accepts (the others raise
\* ValueError), those of them that denote inf or nan, and the number a
\* finite one denotes, in hundredths
IntTexts == {"1899", "1900", "2000", "2100", "2101", "90", "10", "1", "0", "-1"}

FloatTexts == IntTexts \cup {"7.5", "-0.01", "10.01", "inf", "-inf", "nan"}

IsFinite(s) == s \notin {"inf", "-inf", "nan"}

Hundredths(s) ==
    CASE s = "1899" -> 189900
      [] s = "1900" -> 190000
      [] s = "2000" -> 200000
      [] s = "2100" -> 210000
      [] s = "2101" -> 210100
      [] s = "90" -> 9000
      [] s = "10" -> 1000
      [] s = "1" -> 100
      [] s = "0" -> 0
      [] s = "-1" -> -100
      [] s = "7.5" -> 750
      [] s = "-0.01" -> -1
      [] s = "10.01" -> 1001

\* validate_year: is_valid
ValidateYear_Exclusive(year) ==
    IF year = "" \/ Strip(year) = "" THEN TRUE
    ELSE IF Strip(year) \notin IntTexts THEN FALSE
    ELSE ~(Hundredths(Strip(year)) <= 190000 \/ Hundredths(Strip(year)) >= 210000)

ValidateYear(year) ==
    IF year = "" \/ Strip(year) = "" THEN TRUE
    ELSE IF Strip(year) \notin IntTexts THEN FALSE
    ELSE ~(Hundredths(Strip(year)) < 190000 \/ Hundredths(Strip(year)) > 210000)

\* validate_rating: is_valid
ValidateRating(rating) ==
    IF rating = "" \/ Strip(rating) = "" THEN TRUE
    ELSE IF Strip(rating) \notin FloatTexts THEN FALSE
    ELSE IF ~IsFinite(Strip(rating)) THEN FALSE
    ELSE ~(Hundredths(Strip(rating)) < 0 \/ Hundredths(Strip(rating)) > 1000)

\* validate_runtime: is_valid
ValidateRuntime(runtime) ==
    IF runtime = "" \/ Strip(runtime) = "" THEN TRUE
    ELSE IF Strip(runtime) \notin IntTexts THEN FALSE
    ELSE ~(Hundredths(Strip(runtime)) <= 0)

\* validate_nfo_data: (all_valid, results), a result being named by its
\* field
validate_nfo_data_FirstFailure(data) ==
    LET results ==
            IF ~ValidateYear(data.year) THEN <<"year">>
            ELSE IF ~ValidateRating(data.rating) THEN <<"rating">>
            ELSE IF ~ValidateRuntime(data.runtime) THEN <<"runtime">>
            ELSE <<>>
    IN  [all_valid |-> Len(results) = 0, results |-> results]

validate_nfo_data_YearOnly(data) ==
    LET results == IF ~ValidateYear(data.year) THEN <<"year">> ELSE <<>>
    IN  [all_valid |-> Len(results) = 0, results |-> results]

validate_nfo_data(data) ==
    LET year_result == IF ~ValidateYear(data.year) THEN <<"year">> ELSE <<>>
        rating_result == IF ~ValidateRating(data.rating) THEN <<"rating">> ELSE <<>>
        runtime_result == IF ~ValidateRuntime(data.runtime) THEN <<"runtime">> ELSE <<>>
        results == year_result \o rating_result \o runtime_result
    IN  [all_valid |-> Len(results) = 0, results |-> results]

\* validate_nfo_data: all_valid, as _apply_file reads it
ValidateNfoData(data) == validate_nfo_data(data).all_valid

\* the sequences of at most n elements of S
RECURSIVE SeqsUpTo(_, _)
SeqsUpTo(S, n) ==
    IF n = 0 THEN {<<>>}
    ELSE LET shorter == SeqsUpTo(S, n - 1)
         IN  shorter \cup {Append(q, x) : q \in shorter, x \in S}

\* x in seq
Has(seq, x) == \E k \in 1..Len(seq) : seq[k] = x

\* _apply_field: the record after the mutation, or that it raised
ApplyField_AppendUnique(data, field, value, mode) ==
    IF field = "studio"
    THEN [raised |-> FALSE, data |-> [data EXCEPT !.studio = value]]
    ELSE IF field = "genre"
    THEN IF mode = "overwrite"
         THEN [raised |-> FALSE, data |-> [data EXCEPT !.genres = <<value>>]]
         ELSE IF mode = "append"
         THEN [raised |-> FALSE,
               data |-> [data EXCEPT !.genres =
                            IF Has(@, value) THEN @ ELSE Append(@, value)]]
         ELSE [raised |-> TRUE, data |-> data]
    ELSE IF field = "director"
    THEN IF mode = "overwrite"
         THEN [raised |-> FALSE, data |-> [data EXCEPT !.directors = <<value>>]]
         ELSE IF mode = "append"
         THEN [raised |-> FALSE,
               data |-> [data EXCEPT !.directors =
                            IF Has(@, value) THEN @ ELSE Append(@, value)]]
         ELSE [raised |-> TRUE, data |-> data]
    ELSE [raised |-> FALSE, data |-> data]

ApplyField(data, field, value, mode) ==
    IF field = "studio"
    THEN [raised |-> FALSE, data |-> [data EXCEPT !.studio = value]]
    ELSE IF field = "genre"
    THEN IF mode = "overwrite"
         THEN [raised |-> FALSE, data |-> [data EXCEPT !.genres = <<value>>]]
         ELSE IF mode = "append"
         THEN [raised |-> FALSE, data |-> [data EXCEPT !.genres = Append(@, value)]]
         ELSE [raised |-> TRUE, data |-> data]
    ELSE IF field = "director"
    THEN IF mode = "overwrite"
         THEN [raised |-> FALSE, data |-> [data EXCEPT !.directors = <<value>>]]
         ELSE IF mode = "append"
         THEN [raised |-> FALSE, data |-> [data EXCEPT !.directors = Append(@, value)]]
         ELSE [raised |-> TRUE, data |-> data]
    ELSE [raised |-> FALSE, data |-> data]

\* the entries of a list that _add_text_element writes: those with text
RECURSIVE NonEmpty(_)
NonEmpty(seq) ==
    IF seq = <<>> THEN <<>>
    ELSE IF Head(seq) = "" THEN NonEmpty(Tail(seq))
    ELSE <<Head(seq)>> \o NonEmpty(Tail(seq))

\* format_xml followed by write_text, as the next parse will read it
FormatXml(data) ==
    [data EXCEPT !.genres = NonEmpty(@), !.directors = NonEmpty(@)]

\* the locals of a unit that has not run, and the data of one that raised
IdleWork == [stage |-> "idle", res |-> "none", data |-> Malformed]

\* _apply_file, lines 219-229: parse, _apply_field and validate_nfo_data;
\* what raises there, or the record to be saved
LoadOutcome_SkipValidation(content, args) ==
    IF content.kind = "malformed"
    THEN [stage |-> "finished", res |-> "ParseError", data |-> Malformed]
    ELSE LET m == ApplyField(content, args.field, args.value, args.mode)
         IN  IF m.raised
             THEN [stage |-> "finished", res |-> "ValueError", data |-> Malformed]
             ELSE [stage |-> "valid", res |-> "none", data |-> m.data]

LoadOutcome(content, args) ==
    IF content.kind = "malformed"
    THEN [stage |-> "finished", res |-> "ParseError", data |-> Malformed]
    ELSE LET m == ApplyField(content, args.field, args.value, args.mode)
         IN  IF m.raised
             THEN [stage |-> "finished", res |-> "ValueError", data |-> Malformed]
             ELSE IF ~ValidateNfoData(m.data)
             THEN [stage |-> "finished", res |-> "Validation failed", data |-> Malformed]
             ELSE [stage |-> "valid", res |-> "none", data |-> m.data]

\* the apply call and the preview call of the batch are made by one thread
FileCaller == 1

\* a pool worker runs lines 219-229 of _apply_file for the i-th file of the
\* list: the file is read, and the mutated record validated
FileLoad(c, i) ==
    /\ call[c].pc \in {"join", "inc_processed"}
    /\ i \in 1..Len(unit[c])
    /\ unit[c][i].pc = "running"
    /\ work[napplies][i].stage = "idle"
    /\ work' = [work EXCEPT ![napplies][i] = LoadOutcome(disk[flist[i]], fargs)]
    /\ accessed' = [accessed EXCEPT !.read = @ \cup {flist[i]}]
    /\ UNCHANGED <<disk, disk0, flist, fargs, pvout, npreviews>>
    /\ UNCHANGED <<storeVars, ret, applyVars, others, ctorVars, calc>>

\* parser.save on the file at the unit's position in the directory, not on
\* the path of its list entry
FileSave_ByPosition(c, i, outcome) ==
    /\ call[c].pc \in {"join", "inc_processed"}
    /\ i \in 1..Len(unit[c])
    /\ unit[c][i].pc = "running"
    /\ work[napplies][i].stage = "valid"
    /\ disk' = [disk EXCEPT ![i] =
                   CASE outcome = "written" -> FormatXml(work[napplies][i].data)
                     [] outcome = "refused" -> @
                     [] outcome = "truncated" -> Malformed]
    /\ accessed' = IF outcome = "refused"
                   THEN accessed
                   ELSE [accessed EXCEPT !.written = @ \cup {i}]
    /\ work' = [work EXCEPT ![napplies][i].stage = "finished",
                            ![napplies][i].res = IF outcome = "written"
                                                 THEN "ok" ELSE "FileError"]
    /\ UNCHANGED <<disk0, flist, fargs, pvout, npreviews>>
    /\ UNCHANGED <<storeVars, ret, applyVars, others, ctorVars, calc>>

\* line 232, parser.save: format_xml and path.write_text.  The text is
\* written; or the file cannot be opened and stays as it was; or the write
\* fails after the file was opened, which has truncated it.  The last two
\* raise FileError.
FileSave(c, i, outcome) ==
    /\ call[c].pc \in {"join", "inc_processed"}
    /\ i \in 1..Len(unit[c])
    /\ unit[c][i].pc = "running"
    /\ work[napplies][i].stage = "valid"
    /\ disk' = [disk EXCEPT ![flist[i]] =
                   CASE outcome = "written" -> FormatXml(work[napplies][i].data)
                     [] outcome = "refused" -> @
                     [] outcome = "truncated" -> Malformed]
    /\ accessed' = IF outcome = "refused"
                   THEN accessed
                   ELSE [accessed EXCEPT !.written = @ \cup {flist[i]}]
    /\ work' = [work EXCEPT ![napplies][i].stage = "finished",
                            ![napplies][i].res = IF outcome = "written"
                                                 THEN "ok" ELSE "FileError"]
    /\ UNCHANGED <<disk0, flist, fargs, pvout, npreviews>>
    /\ UNCHANGED <<storeVars, ret, applyVars, others, ctorVars, calc>>

\* lines 234-239: increment_success, or increment_failed with str(e)
FileRecord(c, i) ==
    /\ call[c].pc \in {"join", "inc_processed"}
    /\ i \in 1..Len(unit[c])
    /\ work[napplies][i].stage = "finished"
    /\ UnitRun(c, i, work[napplies][i].res)

\* a directory handed to preview: a path that does not exist, one that is
\* not a directory, or a tree.  A tree is a chain of directories nested down
\* to level depth (the root is level 0) which holds the given number of
\* .nfo files (those of the disk, or more than the model follows); the
\* directory at level stop, if any, is hidden (its name starts with a dot)
\* or denied (iterdir raises PermissionError)
Directories ==
    {[kind |-> "missing"], [kind |-> "file"]}
    \cup [kind : {"dir"},
          depth : {0, MAX_SCAN_DEPTH, MAX_SCAN_DEPTH + 1},
          nfo : (0..MaxListLen) \cup {MAX_FILES_PER_BATCH + 1},
          stop : {0}, why : {"none"}]

\* _scan_nfo_files(directory, depth) on the directory at level depth of a
\* tree: whether RuntimeError comes out of it
RECURSIVE ScanRaises_Inclusive(_, _)
ScanRaises_Inclusive(tree, depth) ==
    IF depth >= MAX_SCAN_DEPTH THEN TRUE
    ELSE IF tree.stop = depth /\ tree.why = "denied" THEN FALSE
    ELSE IF depth < tree.depth
    THEN IF tree.stop = depth + 1 /\ tree.why = "hidden"
         THEN FALSE
         ELSE ScanRaises_Inclusive(tree, depth + 1)
    ELSE FALSE

RECURSIVE ScanRaises(_, _)
ScanRaises(tree, depth) ==
    IF depth > MAX_SCAN_DEPTH THEN TRUE
    ELSE IF tree.stop = depth /\ tree.why = "denied" THEN FALSE
    ELSE IF depth < tree.depth
    THEN IF tree.stop = depth + 1 /\ tree.why = "hidden"
         THEN FALSE
         ELSE ScanRaises(tree, depth + 1)
    ELSE FALSE

\* ", ".join(list)
RECURSIVE JoinComma(_)
JoinComma(seq) ==
    IF seq = <<>> THEN <<>>
    ELSE IF Len(seq) = 1 THEN seq
    ELSE <<Head(seq), ", ">> \o JoinComma(Tail(seq))

\* a one-valued text as a joined text
Text(str) == IF str = "" THEN <<>> ELSE <<str>>

\* _preview_file: the dict it returns
PreviewFile(path, content, args) ==
    IF content.kind = "malformed"
    THEN [path |-> path, error |-> "Failed to parse file"]
    ELSE LET current_value ==
                 IF args.field = "studio" THEN Text(content.studio)
                 ELSE IF args.field = "genre" THEN JoinComma(content.genres)
                 ELSE IF args.field = "director" THEN JoinComma(content.directors)
                 ELSE <<>>
             new_value ==
                 IF args.mode = "overwrite" THEN Text(args.value)
                 ELSE IF args.mode = "append" /\ current_value # <<>>
                 THEN current_value \o <<", ">> \o Text(args.value)
                 ELSE IF args.mode = "append" THEN Text(args.value)
                 ELSE <<>>
         IN  [path |-> path, current_value |-> current_value,
              new_value |-> new_value]

\* preview, lines 138-160: the directory tests, the scan and the file-count
\* ceiling; each raises before any file is parsed; an empty scan returns []
PreviewEnter(c, d) ==
    /\ call[c].pc = "idle"
    /\ npreviews < MaxPreviews
    /\ npreviews' = npreviews + 1
    /\ LET raises ==
               IF d.kind = "missing" THEN "FileNotFoundError"
               ELSE IF d.kind = "file" THEN "ValueError"
               ELSE IF ScanRaises(d, 0) THEN "RuntimeError: depth"
               ELSE IF TooManyFiles(d.nfo) THEN "RuntimeError: too many"
               ELSE "no"
       IN  IF raises # "no"
           THEN /\ ret' = [op |-> "preview", val |-> raises, dir |-> d]
                /\ UNCHANGED call
           ELSE IF d.nfo = 0
           THEN /\ ret' = [op |-> "preview", val |-> "ok", dir |-> d, out |-> <<>>]
                /\ UNCHANGED call
           ELSE /\ ret' = NoRet
                /\ call' = [call EXCEPT ![c] = [IdleCall EXCEPT !.pc = "pv_submit",
                                                                 !.nfiles = d.nfo]]
    /\ UNCHANGED <<task, _count_lock, unit, napplies, nunits>>
    /\ UNCHANGED <<disk, disk0, flist, fargs, work, accessed, pvout>>
    /\ UNCHANGED <<storeVars, others, ctorVars, calc>>

\* preview, lines 166-168: one executor.submit per scanned file
PreviewSubmit(c) ==
    /\ call[c].pc = "pv_submit"
    /\ unit' = [unit EXCEPT ![c] = [i \in 1..call[c].nfiles |-> QueuedUnit]]
    /\ pvout' = [entry |-> [i \in 1..call[c].nfiles |-> [path |-> 0]], files |-> <<>>]
    /\ call' = [call EXCEPT ![c].pc = "pv_join"]
    /\ ret' = NoRet
    /\ UNCHANGED <<task, _count_lock, napplies, nunits>>
    /\ UNCHANGED <<disk, disk0, flist, fargs, work, accessed, npreviews>>
    /\ UNCHANGED <<storeVars, others, ctorVars, calc>>

\* a pool worker runs _preview_file on the i-th scanned file
PreviewUnitRun(c, i) ==
    /\ call[c].pc = "pv_join"
    /\ i \in 1..Len(unit[c])
    /\ unit[c][i].pc = "running"
    /\ pvout' = [pvout EXCEPT !.entry[i] = PreviewFile(i, disk[i], fargs)]
    /\ accessed' = [accessed EXCEPT !.read = @ \cup {i}]
    /\ unit' = [unit EXCEPT ![c][i].pc = "done"]
    /\ ret' = NoRet
    /\ UNCHANGED <<task, _count_lock, call, napplies, nunits>>
    /\ UNCHANGED <<disk, disk0, flist, fargs, work, npreviews>>
    /\ UNCHANGED <<storeVars, others, ctorVars, calc>>

\* preview, lines 170-176: as_completed yields a finished future; its dict
\* is kept unless it has the key "error"
PreviewCollect_KeepErrors(c, i) ==
    /\ call[c].pc = "pv_join"
    /\ i \in 1..Len(unit[c])
    /\ unit[c][i].pc = "done"
    /\ unit' = [unit EXCEPT ![c][i] = JoinedUnit]
    /\ call' = [call EXCEPT ![c].joined = @ + 1]
    /\ pvout' = [pvout EXCEPT !.files = Append(@, pvout.entry[i])]
    /\ ret' = NoRet
    /\ UNCHANGED <<task, _count_lock, napplies, nunits>>
    /\ UNCHANGED <<disk, disk0, flist, fargs, work, accessed, npreviews>>
    /\ UNCHANGED <<storeVars, others, ctorVars, calc>>

PreviewCollect(c, i) ==
    /\ call[c].pc = "pv_join"
    /\ i \in 1..Len(unit[c])
    /\ unit[c][i].pc = "done"
    /\ unit' = [unit EXCEPT ![c][i] = JoinedUnit]
    /\ call' = [call EXCEPT ![c].joined = @ + 1]
    /\ pvout' = IF "error" \in DOMAIN pvout.entry[i]
                THEN pvout
                ELSE [pvout EXCEPT !.files = Append(@, pvout.entry[i])]
    /\ ret' = NoRet
    /\ UNCHANGED <<task, _count_lock, napplies, nunits>>
    /\ UNCHANGED <<disk, disk0, flist, fargs, work, accessed, npreviews>>
    /\ UNCHANGED <<storeVars, others, ctorVars, calc>>

\* preview, line 176: return preview_files
PreviewFinish(c) ==
    /\ call[c].pc = "pv_join"
    /\ AllJoined(c)
    /\ ret' = [op |-> "preview", val |-> "ok", out |-> pvout.files]
    /\ call' = [call EXCEPT ![c] = IdleCall]
    /\ unit' = [unit EXCEPT ![c] = <<>>]
    /\ pvout' = NoPreview
    /\ UNCHANGED <<task, _count_lock, napplies, nunits>>
    /\ UNCHANGED <<disk, disk0, flist, fargs, work, accessed, npreviews>>
    /\ UNCHANGED <<storeVars, others, ctorVars, calc>>

\* the file lists of a batch: the first files of the disk
FileLists == {[i \in 1..n |-> i] : n \in 0..MaxListLen}

\* a batch (field, value, mode, file list) on a disk; its task, Pending with
\* zero counters, is registered in the store; nothing has been called yet
InitFile ==
    /\ disk \in [Paths -> Contents]
    /\ disk0 = disk
    /\ flist \in FileLists
    /\ fargs \in BatchArgs
    /\ work = [k \in 1..MaxApplies |-> [i \in 1..Len(flist) |-> IdleWork]]
    /\ accessed = [read |-> {}, written |-> {}]
    /\ pvout = NoPreview
    /\ npreviews = 0
    /\ _tasks = [i \in TaskIds |-> IF i = RegisteredId
                                   THEN [task_id |-> i, created_at |-> 0]
                                   ELSE NoTask]
    /\ _add_count = 1
    /\ _tasks_lock = NoThread
    /\ now = TTL_SECONDS
    /\ pc = [t \in Threads |-> "idle"]
    /\ arg = [t \in Threads |-> NoTask]
    /\ ret = NoRet
    /\ task = NewTask
    /\ _count_lock = NoOwner
    /\ call = [c \in Callers |-> IdleCall]
    /\ unit = [c \in Callers |-> <<>>]
    /\ napplies = 0
    /\ nunits = 0
    /\ others = 0
    /\ CtorAtRest
    /\ CalcAtRest

\* the lengths of the file lists handed to apply: the list of the batch and
\* the two around the ceiling
NextFile ==
    \/ \E id \in ApplyIds, n \in {Len(flist), MAX_FILES_PER_BATCH, MAX_FILES_PER_BATCH + 1} :
          ApplyEnter(FileCaller, id, n)
    \/ ApplySetRunning(FileCaller)
    \/ ApplySetTotal(FileCaller)
    \/ ApplySubmit(FileCaller)
    \/ \E i \in Paths : UnitStart(FileCaller, i)
    \/ \E i \in Paths : FileLoad(FileCaller, i)
    \/ \E i \in Paths, outcome \in {"written", "refused", "truncated"} :
          FileSave(FileCaller, i, outcome)
    \/ \E i \in Paths : FileRecord(FileCaller, i)
    \/ \E i \in Paths : UnitIncWrite(FileCaller, i)
    \/ \E i \in Paths : UnitAppendError(FileCaller, i)
    \/ \E i \in Paths : ApplyProcessedAcquire(FileCaller, i)
    \/ ApplyProcessedWrite(FileCaller)
    \/ ApplyFinish(FileCaller)
    \/ \E d \in Directories : PreviewEnter(FileCaller, d)
    \/ PreviewSubmit(FileCaller)
    \/ \E i \in Paths : PreviewUnitRun(FileCaller, i)
    \/ \E i \in Paths : PreviewCollect(FileCaller, i)
    \/ PreviewFinish(FileCaller)

SpecFile == InitFile /\ [][NextFile]_vars

\* a directory of MaxScanned files, the last of which was added after the
\* preview: the frozen file list of the batch names the others, each of
\* them any number of times, in up to MaxUnits entries.  The task of the
\* batch is registered; nothing has been called yet
InitList ==
    /\ disk \in [1..MaxScanned -> Contents]
    /\ disk0 = disk
    /\ flist \in SeqsUpTo(1..(MaxScanned - 1), MaxUnits) \ {<<>>}
    /\ fargs \in BatchArgs
    /\ work = [k \in 1..MaxApplies |-> [i \in 1..Len(flist) |-> IdleWork]]
    /\ accessed = [read |-> {}, written |-> {}]
    /\ pvout = NoPreview
    /\ npreviews = 0
    /\ _tasks = [i \in TaskIds |-> IF i = RegisteredId
                                   THEN [task_id |-> i, created_at |-> 0]
                                   ELSE NoTask]
    /\ _add_count = 1
    /\ _tasks_lock = NoThread
    /\ now = TTL_SECONDS
    /\ pc = [t \in Threads |-> "idle"]
    /\ arg = [t \in Threads |-> NoTask]
    /\ ret = NoRet
    /\ task = NewTask
    /\ _count_lock = NoOwner
    /\ call = [c \in Callers |-> IdleCall]
    /\ unit = [c \in Callers |-> <<>>]
    /\ napplies = 0
    /\ nunits = 0
    /\ others = 0
    /\ CtorAtRest
    /\ CalcAtRest

\* apply on the frozen list, for the registered task
NextList ==
    \/ ApplyEnter(FileCaller, RegisteredId, Len(flist))
    \/ ApplySetRunning(FileCaller)
    \/ ApplySetTotal(FileCaller)
    \/ ApplySubmit(FileCaller)
    \/ \E i \in 1..MaxUnits : UnitStart(FileCaller, i)
    \/ \E i \in 1..MaxUnits : FileLoad(FileCaller, i)
    \/ \E i \in 1..MaxUnits, outcome \in {"written", "refused", "truncated"} :
          FileSave(FileCaller, i, outcome)
    \/ \E i \in 1..MaxUnits : FileRecord(FileCaller, i)
    \/ \E i \in 1..MaxUnits : UnitIncWrite(FileCaller, i)
    \/ \E i \in 1..MaxUnits : UnitAppendError(FileCaller, i)
    \/ \E i \in 1..MaxUnits : ApplyProcessedAcquire(FileCaller, i)
    \/ ApplyProcessedWrite(FileCaller)
    \/ ApplyFinish(FileCaller)

SpecList == InitList /\ [][NextList]_vars

\* the directories whose preview the model follows to its end: trees of
\* depth 0 with the first files of the disk
ScannedDirectories ==
    [kind : {"dir"}, depth : {0}, nfo : 0..MaxScanned, stop : {0}, why : {"none"}]

\* a disk of MaxScanned files and the arguments of a preview; no apply
InitPreview ==
    /\ disk \in [1..MaxScanned -> Contents]
    /\ disk0 = disk
    /\ flist = <<>>
    /\ fargs \in BatchArgs
    /\ work = [k \in 1..MaxApplies |-> <<>>]
    /\ accessed = [read |-> {}, written |-> {}]
    /\ pvout = NoPreview
    /\ npreviews = 0
    /\ _tasks = [i \in TaskIds |-> NoTask]
    /\ _add_count = 0
    /\ _tasks_lock = NoThread
    /\ now = TTL_SECONDS
    /\ pc = [t \in Threads |-> "idle"]
    /\ arg = [t \in Threads |-> NoTask]
    /\ ret = NoRet
    /\ task = NewTask
    /\ _count_lock = NoOwner
    /\ call = [c \in Callers |-> IdleCall]
    /\ unit = [c \in Callers |-> <<>>]
    /\ napplies = 0
    /\ nunits = 0
    /\ others = 0
    /\ CtorAtRest
    /\ CalcAtRest

NextPreview ==
    \/ \E d \in ScannedDirectories : PreviewEnter(FileCaller, d)
    \/ PreviewSubmit(FileCaller)
    \/ \E i \in 1..MaxScanned : UnitStart(FileCaller, i)
    \/ \E i \in 1..MaxScanned : PreviewUnitRun(FileCaller, i)
    \/ \E i \in 1..MaxScanned : PreviewCollect(FileCaller, i)
    \/ PreviewFinish(FileCaller)

SpecPreview == InitPreview /\ [][NextPreview]_vars

(***************************************************************************)
(* The preview step of the request layer (POST /api/batch/preview): the    *)
(* handler runs BatchProcessor.preview, builds a BatchTask from what it    *)
(* returned, hands it to TaskManager.add and answers with the task id.     *)
(* The handler is written from the specification and from the requests of  *)
(* tests/test_batch_api.py; preview, add and apply are those of the        *)
(* sources.  One thread serves the requests, one after the other.          *)
(***************************************************************************)
\* str(uuid.uuid4()): an id no task of the store has
FreshId(ts) ==
    CHOOSE i \in TaskIds :
        /\ ts[i] = NoTask
        /\ \A j \in TaskIds : j < i => ts[j] # NoTask

\* the handler after preview has returned its list: the BatchTask of the
\* batch is built, Pending and with zero counters, created now; a preview
\* that raised has answered the request with its error
ApiPreviewCreate(c) ==
    /\ call[c].pc = "idle"
    /\ pc[c] = "idle"
    /\ ret.op = "preview"
    /\ ret.val = "ok"
    /\ task' = NewTask
    /\ call' = [call EXCEPT ![c].pc = "api_add"]
    /\ ret' = [op |-> "BatchTask", out |-> ret.out,
               task |-> [task_id |-> FreshId(_tasks), created_at |-> now]]
    /\ UNCHANGED <<_count_lock, unit, napplies, nunits>>
    /\ UNCHANGED <<storeVars, others, ctorVars, fileVars, calc>>

\* the handler calls task_manager.add(task)
ApiPreviewAdd(c) ==
    /\ call[c].pc = "api_add"
    /\ ret.op = "BatchTask"
    /\ AddEnter(c, ret.task)

\* add has returned or raised: the handler answers with the task id, or
\* with the error of add
ApiPreviewReturn(c) ==
    /\ call[c].pc = "api_add"
    /\ pc[c] = "return"
    /\ _tasks_lock' = NoThread
    /\ pc' = [pc EXCEPT ![c] = "idle"]
    /\ call' = [call EXCEPT ![c] = IdleCall]
    /\ ret' = [op |-> "api_preview", val |-> ret.val, id |-> ret.task.task_id]
    /\ UNCHANGED <<_tasks, _add_count, now, arg>>
    /\ UNCHANGED <<task, _count_lock, unit, napplies, nunits>>
    /\ UNCHANGED <<others, ctorVars, fileVars, calc>>

\* a store that holds no task, or as many as it takes, none of them
\* expired; a disk of MaxScanned files and the arguments of a preview
\* request
InitEngine ==
    /\ disk \in [1..MaxScanned -> Contents]
    /\ disk0 = disk
    /\ flist = <<>>
    /\ fargs \in BatchArgs
    /\ work = [k \in 1..MaxApplies |-> <<>>]
    /\ accessed = [read |-> {}, written |-> {}]
    /\ pvout = NoPreview
    /\ npreviews = 0
    /\ \E k \in {0, MAX_CONCURRENT_TASKS} :
          /\ _tasks = [i \in TaskIds |-> IF i <= k
                                         THEN [task_id |-> i, created_at |-> 0]
                                         ELSE NoTask]
          /\ _add_count = k
    /\ _tasks_lock = NoThread
    /\ now = TTL_SECONDS
    /\ pc = [t \in Threads |-> "idle"]
    /\ arg = [t \in Threads |-> NoTask]
    /\ ret = NoRet
    /\ task = NewTask
    /\ _count_lock = NoOwner
    /\ call = [c \in Callers |-> IdleCall]
    /\ unit = [c \in Callers |-> <<>>]
    /\ napplies = 0
    /\ nunits = 0
    /\ others = 0
    /\ CtorAtRest
    /\ CalcAtRest

\* the preview requests name the directories of SpecPreview or one that
\* does not exist; the apply requests carry any task id and, here, an empty
\* file list
NextEngine ==
    \/ \E d \in ScannedDirectories \cup {[kind |-> "missing"]} :
          PreviewEnter(FileCaller, d)
    \/ PreviewSubmit(FileCaller)
    \/ \E i \in 1..MaxScanned : UnitStart(FileCaller, i)
    \/ \E i \in 1..MaxScanned : PreviewUnitRun(FileCaller, i)
    \/ \E i \in 1..MaxScanned : PreviewCollect(FileCaller, i)
    \/ PreviewFinish(FileCaller)
    \/ ApiPreviewCreate(FileCaller)
    \/ ApiPreviewAdd(FileCaller)
    \/ AddInsert(FileCaller)
    \/ AddSweep(FileCaller)
    \/ ApiPreviewReturn(FileCaller)
    \/ \E id \in TaskIds : ApplyEnter(FileCaller, id, 0)
    \/ ApplySetRunning(FileCaller)
    \/ ApplySetTotal(FileCaller)
    \/ ApplySubmit(FileCaller)
    \/ ApplyFinish(FileCaller)

SpecEngine == InitEngine /\ [][NextEngine]_vars

(***************************************************************************)
(* XmlParser: documents, NfoData, parse_string and format_xml              *)
(***************************************************************************)
\* An XML document is its root tag and the child elements of the root; an
\* element is its tag, its text ("" for none), its child elements (tag and
\* text each) and its tail: the text between its end tag and the next tag
\* ("" when that is blank).  A text that is not well-formed XML has no
\* root.
NotXml == [wellformed |-> FALSE]

Element(tag, text) == [tag |-> tag, text |-> text, sub |-> <<>>, tail |-> ""]

\* NfoType: the values of the enumeration, in its order
NfoTypes == <<"movie", "tvshow", "episodedetails">>

\* the tags _parse_root stores in the attribute of the same name
ScalarTags ==
    {"title", "originaltitle", "year", "plot", "runtime", "studio", "rating",
     "poster", "fanart", "season", "episode", "aired"}

\* NfoData(nfo_type=nfo_type): the defaults of the dataclass
NewNfoData(nfo_type) ==
    [nfo_type |-> nfo_type, title |-> "", originaltitle |-> "", year |-> "",
     plot |-> "", runtime |-> "", genres |-> <<>>, directors |-> <<>>,
     actors |-> <<>>, studio |-> "", rating |-> "", poster |-> "",
     fanart |-> "", season |-> "", episode |-> "", aired |-> "",
     extra_tags |-> <<>>]

\* str.lower() on the root tags that occur
Lower(tag) ==
    CASE tag = "MOVIE" -> "movie"
      [] tag = "TVShow" -> "tvshow"
      [] tag = "EpisodeDetails" -> "episodedetails"
      [] OTHER -> tag

\* _detect_type_from_root
_detect_type_from_root_ExactCase(tag) ==
    IF \E k \in 1..Len(NfoTypes) : NfoTypes[k] = tag THEN tag ELSE "movie"

_detect_type_from_root(tag) ==
    IF \E k \in 1..Len(NfoTypes) : NfoTypes[k] = Lower(tag)
    THEN Lower(tag)
    ELSE "movie"

\* int(text) of the order of an actor: the texts that denote an integer
\* (the others raise ValueError), and str(order)
OrderTexts == {"0", "2"}

IntOf(text) == IF text = "2" THEN 2 ELSE 0

StrOf(order) == IF order = 2 THEN "2" ELSE "0"

\* _parse_actor: the children of the actor element, in their order
RECURSIVE ParseActorFrom(_, _)
ParseActorFrom(sub, actor) ==
    IF sub = <<>> THEN actor
    ELSE LET child == Head(sub)
             next == CASE child.tag = "name" -> [actor EXCEPT !.name = child.text]
                       [] child.tag = "role" -> [actor EXCEPT !.role = child.text]
                       [] child.tag = "thumb" -> [actor EXCEPT !.thumb = child.text]
                       [] child.tag = "order" ->
                            [actor EXCEPT !.order = IF child.text \in OrderTexts
                                                    THEN IntOf(child.text)
                                                    ELSE 0]
                       [] OTHER -> actor
         IN  ParseActorFrom(Tail(sub), next)

_parse_actor(actor_elem) ==
    ParseActorFrom(actor_elem.sub, [name |-> "", role |-> "", thumb |-> "", order |-> 0])

\* etree.tostring(elem, encoding='unicode'): the element with its
\* attributes and children, and with its tail (with_tail defaults to True)
tostring(elem) == elem

\* _add_extra_tag.  extra_tags is a dict in insertion order: here the
\* sequence of its items, each the key, whether the value is a list, and
\* the fragment or fragments
RECURSIVE _add_extra_tag(_, _, _)
_add_extra_tag(extra_tags, tag, elem) ==
    IF extra_tags = <<>>
    THEN <<[tag |-> tag, list |-> FALSE, frags |-> <<tostring(elem)>>]>>
    ELSE IF Head(extra_tags).tag = tag
    THEN <<[tag |-> tag, list |-> TRUE,
            frags |-> Append(Head(extra_tags).frags, tostring(elem))]>>
         \o Tail(extra_tags)
    ELSE <<Head(extra_tags)>> \o _add_extra_tag(Tail(extra_tags), tag, elem)

\* _parse_root: the loop over the children of the root
RECURSIVE ParseChildren(_, _)
ParseChildren(children, data) ==
    IF children = <<>> THEN data
    ELSE LET child == Head(children)
             next ==
                 IF child.tag \in ScalarTags
                 THEN [data EXCEPT ![child.tag] = child.text]
                 ELSE IF child.tag = "genre"
                 THEN [data EXCEPT !.genres = Append(@, child.text)]
                 ELSE IF child.tag = "director"
                 THEN [data EXCEPT !.directors = Append(@, child.text)]
                 ELSE IF child.tag = "actor"
                 THEN [data EXCEPT !.actors = Append(@, _parse_actor(child))]
                 ELSE [data EXCEPT !.extra_tags = _add_extra_tag(@, child.tag, child)]
         IN  ParseChildren(Tail(children), next)

_parse_root(root, nfo_type) == ParseChildren(root.children, NewNfoData(nfo_type))

\* parse_string: the NfoData, or ParseError
parse_string(xml_content) ==
    IF ~xml_content.wellformed
    THEN [raised |-> "ParseError"]
    ELSE [raised |-> "no",
          data |-> _parse_root(xml_content,
                               _detect_type_from_root(xml_content.root))]

\* _add_text_element: the children of parent with the new element, if any
_add_text_element(parent, tag, text) ==
    IF text # "" THEN Append(parent, Element(tag, text)) ELSE parent

\* _add_actor_element
_add_actor_element(parent, actor) ==
    Append(parent,
           [tag |-> "actor", text |-> "", tail |-> "",
            sub |-> <<[tag |-> "name", text |-> actor.name]>>
                    \o (IF actor.role # ""
                        THEN <<[tag |-> "role", text |-> actor.role]>> ELSE <<>>)
                    \o (IF actor.thumb # ""
                        THEN <<[tag |-> "thumb", text |-> actor.thumb]>> ELSE <<>>)
                    \o <<[tag |-> "order", text |-> StrOf(actor.order)]>>])

\* _append_xml_string: etree.fromstring of the fragment raises
\* XMLSyntaxError when text follows the end tag of its element, and the
\* fragment is skipped; the element appended has no tail
_append_xml_string(parent, xml_str) ==
    IF xml_str.tail # "" THEN parent
    ELSE Append(parent, xml_str)

RECURSIVE AppendFragments(_, _)
AppendFragments(parent, frags) ==
    IF frags = <<>> THEN parent
    ELSE AppendFragments(_append_xml_string(parent, Head(frags)), Tail(frags))

\* _add_extra_tags
RECURSIVE _add_extra_tags(_, _)
_add_extra_tags(parent, extra_tags) ==
    IF extra_tags = <<>> THEN parent
    ELSE _add_extra_tags(AppendFragments(parent, Head(extra_tags).frags),
                         Tail(extra_tags))

\* the loops of format_xml over a list
RECURSIVE AddTextElements(_, _, _)
AddTextElements(parent, tag, texts) ==
    IF texts = <<>> THEN parent
    ELSE AddTextElements(_add_text_element(parent, tag, Head(texts)), tag, Tail(texts))

RECURSIVE AddActorElements(_, _)
AddActorElements(parent, actors) ==
    IF actors = <<>> THEN parent
    ELSE AddActorElements(_add_actor_element(parent, Head(actors)), Tail(actors))

\* format_xml: the document whose text it returns
format_xml_NoImages(data) ==
    LET c1 == _add_text_element(<<>>, "title", data.title)
        c2 == _add_text_element(c1, "originaltitle", data.originaltitle)
        c3 == _add_text_element(c2, "year", data.year)
        c4 == _add_text_element(c3, "plot", data.plot)
        c5 == _add_text_element(c4, "runtime", data.runtime)
        c6 == _add_text_element(c5, "studio", data.studio)
        c7 == _add_text_element(c6, "rating", data.rating)
        c8 == AddTextElements(c7, "genre", data.genres)
        c9 == AddTextElements(c8, "director", data.directors)
        c10 == AddActorElements(c9, data.actors)
        c13 == IF data.nfo_type \in {"tvshow", "episodedetails"}
               THEN _add_text_element(
                        _add_text_element(
                            _add_text_element(c10, "season", data.season),
                            "episode", data.episode),
                        "aired", data.aired)
               ELSE c10
    IN  [wellformed |-> TRUE, root |-> data.nfo_type,
         children |-> _add_extra_tags(c13, data.extra_tags)]

format_xml(data) ==
    LET c1 == _add_text_element(<<>>, "title", data.title)
        c2 == _add_text_element(c1, "originaltitle", data.originaltitle)
        c3 == _add_text_element(c2, "year", data.year)
        c4 == _add_text_element(c3, "plot", data.plot)
        c5 == _add_text_element(c4, "runtime", data.runtime)
        c6 == _add_text_element(c5, "studio", data.studio)
        c7 == _add_text_element(c6, "rating", data.rating)
        c8 == AddTextElements(c7, "genre", data.genres)
        c9 == AddTextElements(c8, "director", data.directors)
        c10 == AddActorElements(c9, data.actors)
        c11 == _add_text_element(c10, "poster", data.poster)
        c12 == _add_text_element(c11, "fanart", data.fanart)
        c13 == IF data.nfo_type \in {"tvshow", "episodedetails"}
               THEN _add_text_element(
                        _add_text_element(
                            _add_text_element(c12, "season", data.season),
                            "episode", data.episode),
                        "aired", data.aired)
               ELSE c12
    IN  [wellformed |-> TRUE, root |-> data.nfo_type,
         children |-> _add_extra_tags(c13, data.extra_tags)]

(***************************************************************************)
(* The functions of the engine, the validator and the codec, each applied  *)
(* to an input                                                             *)
(***************************************************************************)
notCalc == <<storeVars, ret, applyVars, others, ctorVars, fileVars>>

\* records handed to _apply_field and to _preview_file: parsed files that
\* pass validation, with a studio or none and with genre and director lists
\* that may already hold the value of the batch
FieldRecords ==
    [kind : {"nfo"}, studio : {"", "S"},
     genres : SeqsUpTo({"G", "V"}, MaxEntries),
     directors : SeqsUpTo({"D", "V"}, MaxEntries),
     year : {"2000"}, rating : {"7.5"}, runtime : {""}]

\* _apply_field(data, field, value, mode)
CalcApplyField ==
    /\ calc.fn = "_apply_field"
    /\ calc.out = <<>>
    /\ calc' = [calc EXCEPT !.out =
                   <<ApplyField(calc.in.data, calc.in.args.field,
                                calc.in.args.value, calc.in.args.mode)>>]
    /\ UNCHANGED notCalc

\* _preview_file(file_path, field, value, mode): the dict it returns
CalcPreviewFile ==
    /\ calc.fn = "preview, apply"
    /\ calc.out = <<>>
    /\ calc' = [calc EXCEPT !.out = <<PreviewFile(1, calc.in.data, calc.in.args)>>]
    /\ UNCHANGED notCalc

\* _apply_file on a file that can be written: what the file holds
\* afterwards, as the next parse reads it
ApplyFileOnDisk(content, args) ==
    LET loaded == LoadOutcome(content, args)
    IN  IF loaded.stage = "valid" THEN FormatXml(loaded.data) ELSE content

\* _apply_file(file_info, field, value, mode, task), after the preview
CalcApplyFile ==
    /\ calc.fn = "preview, apply"
    /\ Len(calc.out) = 1
    /\ calc' = [calc EXCEPT !.out =
                   Append(@, ApplyFileOnDisk(calc.in.data, calc.in.args))]
    /\ UNCHANGED notCalc

\* the trees handed to _scan_nfo_files: chains nested to a depth at or near
\* MAX_SCAN_DEPTH, with no hidden or denied directory or with one at a level
\* at or near MAX_SCAN_DEPTH
Trees ==
    [kind : {"dir"},
     depth : {0, 1} \cup ((MAX_SCAN_DEPTH - 1)..(MAX_SCAN_DEPTH + 2)),
     nfo : {0}, stop : {0}, why : {"none"}]
    \cup [kind : {"dir"},
          depth : {0, 1} \cup ((MAX_SCAN_DEPTH - 1)..(MAX_SCAN_DEPTH + 2)),
          nfo : {0},
          stop : {1} \cup ((MAX_SCAN_DEPTH - 1)..(MAX_SCAN_DEPTH + 2)),
          why : {"hidden", "denied"}]

\* _scan_nfo_files(directory)
CalcScan ==
    /\ calc.fn = "_scan_nfo_files"
    /\ calc.out = <<>>
    /\ calc' = [calc EXCEPT !.out = <<[raised |-> ScanRaises(calc.in, 0)]>>]
    /\ UNCHANGED notCalc

\* the texts handed to validate_year, validate_rating and validate_runtime
ValidationTexts == FloatTexts \cup {"", "  ", " 2000 ", "abc"}

\* validate_year(year), validate_rating(rating), validate_runtime(runtime):
\* each catches the ValueError of int() and float() and returns a
\* ValidationResult
CalcValidate ==
    /\ calc.fn \in {"validate_year", "validate_rating", "validate_runtime"}
    /\ calc.out = <<>>
    /\ calc' = [calc EXCEPT !.out =
                   <<[raised |-> FALSE,
                      is_valid |-> CASE calc.fn = "validate_year" -> ValidateYear(calc.in)
                                     [] calc.fn = "validate_rating" -> ValidateRating(calc.in)
                                     [] calc.fn = "validate_runtime" -> ValidateRuntime(calc.in)]>>]
    /\ UNCHANGED notCalc

\* validate_nfo_data(data), on the three fields it reads
CalcValidateData ==
    /\ calc.fn = "validate_nfo_data"
    /\ calc.out = <<>>
    /\ calc' = [calc EXCEPT !.out = <<validate_nfo_data(calc.in)>>]
    /\ UNCHANGED notCalc

\* the records handed to format_xml: of their scalar fields (sc) one holds
\* "b" or nothing and the others all hold "a" or all nothing; up to
\* MaxActors actors of two kinds; no extra tags
CodecRecords ==
    {[nfo_type |-> k, title |-> sc["title"],
      originaltitle |-> sc["originaltitle"], year |-> sc["year"],
      plot |-> sc["plot"], runtime |-> sc["runtime"], genres |-> g,
      directors |-> d, actors |-> a, studio |-> sc["studio"],
      rating |-> sc["rating"], poster |-> sc["poster"],
      fanart |-> sc["fanart"], season |-> sc["season"],
      episode |-> sc["episode"], aired |-> sc["aired"], extra_tags |-> <<>>] :
        k \in {NfoTypes[i] : i \in 1..Len(NfoTypes)},
        sc \in {[t \in ScalarTags |-> IF t = f THEN u ELSE o] :
                    f \in ScalarTags, u \in {"", "b"}, o \in {"", "a"}},
        g \in SeqsUpTo({"g", ""}, MaxEntries),
        d \in {<<>>, <<"d">>},
        a \in SeqsUpTo({[name |-> "n", role |-> "", thumb |-> "", order |-> 0],
                         [name |-> "", role |-> "r", thumb |-> "t", order |-> 2]},
                        MaxActors)}

\* the top-level elements of the documents handed to parse_string: known
\* scalars, list entries with and without text, actors, and the unknown
\* tags x (one of them followed by text) and y
DocElements ==
    {Element("title", "a"), Element("season", "1"),
     Element("genre", "g"), Element("genre", ""),
     [tag |-> "actor", text |-> "", tail |-> "",
      sub |-> <<[tag |-> "name", text |-> "n"], [tag |-> "order", text |-> "2"]>>],
     [tag |-> "actor", text |-> "", tail |-> "",
      sub |-> <<[tag |-> "order", text |-> "zz"], [tag |-> "role", text |-> "r"]>>],
     Element("x", "1"), Element("x", "2"),
     [tag |-> "x", text |-> "3", sub |-> <<>>, tail |-> "junk"],
     Element("y", "1")}

\* the documents handed to parse_string: text that is not XML, or a root
\* element with such children
Documents ==
    {NotXml}
    \cup [wellformed : {TRUE},
          root : {"movie", "tvshow", "episodedetails", "MOVIE", "TVShow",
                  "EpisodeDetails", "video"},
          children : SeqsUpTo(DocElements, MaxChildren)]

\* format_xml(data), of the record handed in or of the record parsed last
CalcFormatXml ==
    /\ \/ /\ calc.fn = "format_xml, parse_string"
          /\ calc.out = <<>>
          /\ calc' = [calc EXCEPT !.out = <<format_xml(calc.in)>>]
       \/ /\ calc.fn = "parse_string, format_xml, parse_string"
          /\ Len(calc.out) = 1
          /\ calc.out[1].raised = "no"
          /\ calc' = [calc EXCEPT !.out = Append(@, format_xml(calc.out[1].data))]
    /\ UNCHANGED notCalc

\* parse_string(xml_content), of the document handed in or of the text
\* format_xml returned
CalcParseString ==
    /\ \/ /\ calc.fn = "format_xml, parse_string"
          /\ Len(calc.out) = 1
          /\ calc' = [calc EXCEPT !.out = Append(@, parse_string(calc.out[1]))]
       \/ /\ calc.fn = "parse_string, format_xml, parse_string"
          /\ calc.out = <<>>
          /\ calc' = [calc EXCEPT !.out = <<parse_string(calc.in)>>]
       \/ /\ calc.fn = "parse_string, format_xml, parse_string"
          /\ Len(calc.out) = 2
          /\ calc' = [calc EXCEPT !.out = Append(@, parse_string(calc.out[2]))]
    /\ UNCHANGED notCalc

\* the functions and their inputs: a record and the arguments of a batch
\* for _apply_field, and for _preview_file followed by _apply_file; a tree
\* for the scan; a text for each validator and three for the aggregate
\* check; a record for format_xml
\* followed by parse_string; a document for parse_string, format_xml and
\* parse_string again
CalcInputs ==
    [fn : {"_apply_field", "preview, apply"},
     in : [data : FieldRecords, args : BatchArgs], out : {<<>>}]
    \cup [fn : {"_scan_nfo_files"}, in : Trees, out : {<<>>}]
    \cup [fn : {"validate_year", "validate_rating", "validate_runtime"},
          in : ValidationTexts, out : {<<>>}]
    \cup [fn : {"validate_nfo_data"},
          in : [year : ValidationTexts, rating : ValidationTexts,
                runtime : ValidationTexts],
          out : {<<>>}]
    \cup [fn : {"format_xml, parse_string"}, in : CodecRecords, out : {<<>>}]
    \cup [fn : {"parse_string, format_xml, parse_string"}, in : Documents,
          out : {<<>>}]

\* a function is about to be applied to an input; the store is empty and no
\* batch is running
InitCalc ==
    /\ calc \in CalcInputs
    /\ _tasks = [i \in TaskIds |-> NoTask]
    /\ _add_count = 0
    /\ _tasks_lock = NoThread
    /\ now = TTL_SECONDS
    /\ pc = [t \in Threads |-> "idle"]
    /\ arg = [t \in Threads |-> NoTask]
    /\ ret = NoRet
    /\ task = NewTask
    /\ _count_lock = NoOwner
    /\ call = [c \in Callers |-> IdleCall]
    /\ unit = [c \in Callers |-> <<>>]
    /\ napplies = 0
    /\ nunits = 0
    /\ others = 0
    /\ CtorAtRest
    /\ FilesAtRest

NextCalc ==
    \/ CalcApplyField
    \/ CalcPreviewFile
    \/ CalcApplyFile
    \/ CalcScan
    \/ CalcValidate
    \/ CalcValidateData
    \/ CalcFormatXml
    \/ CalcParseString

SpecCalc == InitCalc /\ [][NextCalc]_vars

(***************************************************************************)
(* Properties of preview (checked under SpecPreview)                       *)
(***************************************************************************)
\* the entries of a preview result that are about the file at a path
EntriesOf(out, path) == {k \in 1..Len(out) : out[k].path = path}

\* C23: a preview that got past the scan returns, and what it returns has
\* exactly one entry for each scanned file that parses and none for a file
\* that fails to parse, whatever the order in which the workers complete;
\* a parse failure never raises out of preview.
C23_OneEntryPerParsedFile ==
    [][\A c \in Callers :
         (call[c].pc \in {"pv_submit", "pv_join"} /\ call'[c].pc = "idle") =>
            /\ ret'.op = "preview"
            /\ ret'.val = "ok"
            /\ \A i \in 1..call[c].nfiles :
                  Cardinality(EntriesOf(ret'.out, i)) =
                     IF disk[i].kind = "malformed" THEN 0 ELSE 1
            /\ \A k \in 1..Len(ret'.out) :
                  /\ ret'.out[k].path \in 1..call[c].nfiles
                  /\ "error" \notin DOMAIN ret'.out[k]
                  /\ ret'.out[k] = PreviewFile(ret'.out[k].path,
                                               disk[ret'.out[k].path], fargs)]_vars

\* a preview of two files has returned the entry of the second file before
\* that of the first
C23_Witness ==
    /\ ret.op = "preview"
    /\ ret.val = "ok"
    /\ Len(ret.out) = 2
    /\ ret.out[1].path = 2
    /\ ret.out[2].path = 1

(***************************************************************************)
(* Properties of the shared pool (checked under SpecPool)                  *)
(***************************************************************************)
\* C32: at no time do more than MAX_WORKERS (10) per-file units execute at
\* once on the executor of a BatchProcessor, the units of its other batches
\* included: all batches share the same execution slots.
C32_AtMostTenUnits == BusyWorkers <= MAX_WORKERS

\* every worker is busy, nine of them with units of other batches, and a
\* unit of this batch waits in the queue
C32_Witness ==
    /\ BusyWorkers = MAX_WORKERS
    /\ others = MAX_WORKERS - 1
    /\ \E i \in 1..Len(unit[PoolCaller]) : unit[PoolCaller][i].pc = "queued"

(***************************************************************************)
(* Properties of the preview step (checked under SpecEngine)               *)
(***************************************************************************)
\* the preview step has answered with a task id
PreviewAnswered == ret.op = "api_preview" /\ ret.val = "ok"

\* the task of that id is in the store, Pending and with zero counters
RegisteredPending ==
    /\ _tasks[ret.id] # NoTask
    /\ _tasks[ret.id].task_id = ret.id
    /\ task.status = "pending"
    /\ task.processed_files = 0
    /\ task.success_count = 0
    /\ task.failed_count = 0

\* a task of the store is still there after the step
StaysRegistered == \A id \in TaskIds : _tasks[id] # NoTask => _tasks'[id] # NoTask

\* an apply that did not find its task asked for an id the store does not
\* hold
RejectedOnlyIfAbsent ==
    (ret'.op = "apply" /\ ret'.val = "ValueError") => _tasks[ret'.id] = NoTask

ListOf(data, field) == IF field = "genre" THEN data.genres ELSE data.directors

\* C21: for field genre or director, overwrite replaces the whole list by
\* the singleton [value]; append adds value as the last entry and keeps
\* every existing entry in its place, also when value is already in the
\* list; every other field of the record is unchanged.
C21_ListFieldMutation ==
    (/\ calc.fn = "_apply_field"
     /\ calc.out # <<>>
     /\ calc.in.args.field \in {"genre", "director"}
     /\ calc.in.args.mode \in {"overwrite", "append"}) =>
        LET field == calc.in.args.field
            value == calc.in.args.value
            old == ListOf(calc.in.data, field)
            new == ListOf(calc.out[1].data, field)
            key == IF field = "genre" THEN "genres" ELSE "directors"
        IN  /\ ~calc.out[1].raised
            /\ calc.in.args.mode = "overwrite" => new = <<value>>
            /\ calc.in.args.mode = "append" =>
                  /\ Len(new) = Len(old) + 1
                  /\ new[Len(new)] = value
                  /\ \A k \in 1..Len(old) : new[k] = old[k]
            /\ DOMAIN calc.out[1].data = DOMAIN calc.in.data
            /\ \A f \in DOMAIN calc.in.data \ {key} :
                  calc.out[1].data[f] = calc.in.data[f]

\* the value was appended to a genre list that already held it
C21_Witness ==
    /\ calc.fn = "_apply_field"
    /\ calc.in.args = [field |-> "genre", value |-> "V", mode |-> "append"]
    /\ calc.in.data.genres = <<"V", "G">>
    /\ calc.out # <<>>
    /\ calc.out[1].data.genres = <<"V", "G", "V">>

\* what a file holds in the field of a batch, as preview displays it
Displayed(content, field) ==
    IF field = "studio" THEN Text(content.studio)
    ELSE JoinComma(ListOf(content, field))

\* C22: for every field in studio, genre, director, every mode in
\* overwrite, append and every file that parses and validates, the
\* new_value reported by preview equals the value of that field in the file
\* (comma-joined for the list fields) after apply with the same field, value
\* and mode.
C22_PreviewAgreesWithApply ==
    (/\ calc.fn = "preview, apply"
     /\ Len(calc.out) = 2
     /\ calc.in.args.field \in {"studio", "genre", "director"}
     /\ calc.in.args.mode \in {"overwrite", "append"}) =>
        calc.out[1].new_value = Displayed(calc.out[2], calc.in.args.field)

\* the scan of a tree enters a directory at the given level: the chain is
\* that deep, no directory down to that level is hidden and none above it
\* is denied
Enters(tree, level) ==
    /\ level <= tree.depth
    /\ ~(tree.why = "hidden" /\ tree.stop \in 1..level)
    /\ ~(tree.why = "denied" /\ tree.stop \in 1..(level - 1))

\* C25: scan fails with the depth-exceeded error iff it enters a non-hidden
\* directory nested more than 50 levels below the scanned root; a tree
\* nested to exactly 50 levels or fewer is scanned without error.
C25_ScanDepthBoundary ==
    (calc.fn = "_scan_nfo_files" /\ calc.out # <<>>) =>
        /\ calc.out[1].raised <=>
              \E level \in 51..calc.in.depth : Enters(calc.in, level)
        /\ calc.in.depth <= 50 => ~calc.out[1].raised

\* a tree nested to exactly 50 levels, none hidden or denied, was scanned
C25_Witness ==
    /\ calc.fn = "_scan_nfo_files"
    /\ calc.in.depth = 50
    /\ calc.in.stop = 0
    /\ calc.out # <<>>
    /\ ~calc.out[1].raised

\* a validator was applied to the text and reported is_valid
Checked(fn, text, is_valid) ==
    /\ calc.fn = fn
    /\ calc.in = text
    /\ calc.out # <<>>
    /\ calc.out[1].is_valid = is_valid

\* C30: the year check passes exactly for the empty (or blank) string and
\* the integers in [1900, 2100] (1899 and 2101 fail); the runtime check
\* passes exactly for the empty string and the integers >= 1 (0 fails); the
\* rating check passes exactly for the empty string and the finite numbers
\* in [0, 10] (-0.01, 10.01 and non-finite values fail); none of the checks
\* raises.  Texts are taken as the checks take them, without surrounding
\* blanks.
C30_ValidationBoundaries ==
    (calc.fn \in {"validate_year", "validate_rating", "validate_runtime"}
       /\ calc.out # <<>>) =>
        /\ ~calc.out[1].raised
        /\ calc.fn = "validate_year" =>
              (calc.out[1].is_valid <=>
                 calc.in \in {"", "  ", "1900", "2000", " 2000 ", "2100"})
        /\ calc.fn = "validate_runtime" =>
              (calc.out[1].is_valid <=>
                 calc.in \in {"", "  ", "1", "10", "90", "1899", "1900",
                              "2000", " 2000 ", "2100", "2101"})
        /\ calc.fn = "validate_rating" =>
              (calc.out[1].is_valid <=>
                 calc.in \in {"", "  ", "0", "1", "7.5", "10"})

\* the year check has passed 1900
C30_Witness == Checked("validate_year", "1900", TRUE)

\* the aggregate check was applied to a record
Aggregated == calc.fn = "validate_nfo_data" /\ calc.out # <<>>

\* the times the field is named in the failure list
TimesIn(results, name) == Cardinality({k \in 1..Len(results) : results[k] = name})

\* C31: the aggregate check passes iff each of the year, rating and runtime
\* checks passes; its failure list holds exactly one result per failing
\* field, none for a passing field, and is empty iff the overall result is
\* pass.
C31_AggregateCheck ==
    Aggregated =>
        LET r == calc.out[1]
        IN  /\ r.all_valid <=> /\ ValidateYear(calc.in.year)
                               /\ ValidateRating(calc.in.rating)
                               /\ ValidateRuntime(calc.in.runtime)
            /\ TimesIn(r.results, "year") = (IF ValidateYear(calc.in.year) THEN 0 ELSE 1)
            /\ TimesIn(r.results, "rating") = (IF ValidateRating(calc.in.rating) THEN 0 ELSE 1)
            /\ TimesIn(r.results, "runtime") = (IF ValidateRuntime(calc.in.runtime) THEN 0 ELSE 1)
            /\ Len(r.results) = TimesIn(r.results, "year") + TimesIn(r.results, "rating")
                                  + TimesIn(r.results, "runtime")
            /\ r.results = <<>> <=> r.all_valid

\* the aggregate check failed a record with a year below the range and a
\* runtime of 0, and returned two results
C31_Witness ==
    /\ Aggregated
    /\ calc.in = [year |-> "1899", rating |-> "7.5", runtime |-> "0"]
    /\ ~calc.out[1].all_valid
    /\ Len(calc.out[1].results) = 2

\* a record was serialized and the text parsed
RecordRoundTrip == calc.fn = "format_xml, parse_string" /\ Len(calc.out) = 2

\* a document was parsed, the record serialized and the text parsed again
DocumentRoundTrip ==
    /\ calc.fn = "parse_string, format_xml, parse_string"
    /\ Len(calc.out) = 3

\* every entry of the list is non-empty
AllNonEmpty(seq) == \A k \in 1..Len(seq) : seq[k] # ""

\* C26: for any record with no extra tags whose list entries are non-empty
\* and whose season, episode and aired are empty unless the kind is TVShow
\* or Episode, parse(serialize(r)) has the same kind, the same scalar
\* fields, the same genres and directors in the same order, and the same
\* actors (name, role, thumb, order) in the same order.
C26_RecordRoundTrip ==
    (/\ RecordRoundTrip
     /\ calc.in.extra_tags = <<>>
     /\ AllNonEmpty(calc.in.genres)
     /\ AllNonEmpty(calc.in.directors)
     /\ calc.in.nfo_type = "movie" =>
           (calc.in.season = "" /\ calc.in.episode = "" /\ calc.in.aired = "")) =>
        /\ calc.out[2].raised = "no"
        /\ calc.out[2].data.nfo_type = calc.in.nfo_type
        /\ \A t \in ScalarTags : calc.out[2].data[t] = calc.in[t]
        /\ calc.out[2].data.genres = calc.in.genres
        /\ calc.out[2].data.directors = calc.in.directors
        /\ calc.out[2].data.actors = calc.in.actors

\* the round trip of a TV show with a season, a poster, two genres and two
\* actors
C26_Witness ==
    /\ RecordRoundTrip
    /\ calc.in.nfo_type = "tvshow"
    /\ calc.in.season = "b"
    /\ calc.in.poster = "a"
    /\ calc.in.genres = <<"g", "g">>
    /\ Len(calc.in.actors) = 2
    /\ calc.in.actors[1] # calc.in.actors[2]
    /\ calc.out[2].raised = "no"
    /\ calc.out[2].data = calc.in

\* C27: for any well-formed document, the record obtained by parsing it,
\* serializing and parsing again has, for every field the codec recognizes
\* (all scalars including season, episode and aired, whatever the root
\* kind, plus genres, directors and actors), the same value as the record
\* obtained by the first parse, up to absent-vs-empty normalization (list
\* entries without text count as absent).
C27_DocumentRoundTrip ==
    (DocumentRoundTrip /\ calc.in.wellformed) =>
        /\ calc.out[1].raised = "no"
        /\ calc.out[3].raised = "no"
        /\ calc.out[3].data.nfo_type = calc.out[1].data.nfo_type
        /\ \A t \in ScalarTags : calc.out[3].data[t] = calc.out[1].data[t]
        /\ NonEmpty(calc.out[3].data.genres) = NonEmpty(calc.out[1].data.genres)
        /\ NonEmpty(calc.out[3].data.directors) = NonEmpty(calc.out[1].data.directors)
        /\ calc.out[3].data.actors = calc.out[1].data.actors

\* the top-level elements of a document that have the given tag, in
\* document order
RECURSIVE Tagged(_, _)
Tagged(children, tag) ==
    IF children = <<>> THEN <<>>
    ELSE IF Head(children).tag = tag
    THEN <<Head(children)>> \o Tagged(Tail(children), tag)
    ELSE Tagged(Tail(children), tag)

\* what a record stores under a tag name: the fragments, and whether as a
\* sequence
Stored(data, tag) ==
    LET at == {k \in 1..Len(data.extra_tags) : data.extra_tags[k].tag = tag}
    IN  IF at = {} THEN [list |-> FALSE, frags |-> <<>>]
        ELSE LET k == CHOOSE k \in at : TRUE
             IN  [list |-> data.extra_tags[k].list,
                  frags |-> data.extra_tags[k].frags]

\* the elements of the fragments, apart from what follows their end tags
Subtrees(frags) == [k \in 1..Len(frags) |-> [frags[k] EXCEPT !.tail = ""]]

\* C28: for any document with N > 1 top-level elements sharing one
\* unrecognized tag name, parse stores under that name an ordered sequence
\* of N fragments in document order, and serialize followed by parse again
\* yields a sequence of the same length N in the same order; a single
\* occurrence is stored as one fragment and survives the round trip as one
\* fragment.
C28_UnknownTagsPreserved ==
    (DocumentRoundTrip /\ calc.in.wellformed) =>
        \A tag \in {"x", "y"} :
            LET elems == Tagged(calc.in.children, tag)
                first == Stored(calc.out[1].data, tag)
                again == Stored(calc.out[3].data, tag)
            IN  Len(elems) >= 1 =>
                  /\ first.list = (Len(elems) > 1)
                  /\ Subtrees(first.frags) = Subtrees(elems)
                  /\ again.list = first.list
                  /\ Subtrees(again.frags) = Subtrees(first.frags)

\* a well-formed document was parsed
DocumentParsed ==
    /\ calc.fn = "parse_string, format_xml, parse_string"
    /\ Len(calc.out) >= 1
    /\ calc.in.wellformed

\* C29 as stated: a root tag equal to movie, tvshow or episodedetails
\* yields Movie, TVShow or Episode respectively, any other root tag yields
\* Movie, and the kind of serialize(r) detected again equals r's kind.
C29_KindFromRootTag ==
    /\ DocumentParsed =>
          /\ calc.out[1].raised = "no"
          /\ calc.out[1].data.nfo_type =
                IF calc.in.root \in {"movie", "tvshow", "episodedetails"}
                THEN calc.in.root
                ELSE "movie"
    /\ RecordRoundTrip =>
          /\ calc.out[2].raised = "no"
          /\ calc.out[2].data.nfo_type = calc.in.nfo_type

\* C29 as amended: the kind depends only on the root tag, compared without
\* regard to the case of its letters: movie, tvshow and episodedetails
\* yield Movie, TVShow and Episode, any other root tag yields Movie, and
\* the kind of serialize(r) detected again equals r's kind.
C29_KindFromRootTagIgnoringCase ==
    /\ DocumentParsed =>
          /\ calc.out[1].raised = "no"
          /\ calc.out[1].data.nfo_type =
                CASE calc.in.root \in {"movie", "MOVIE"} -> "movie"
                  [] calc.in.root \in {"tvshow", "TVShow"} -> "tvshow"
                  [] calc.in.root \in {"episodedetails", "EpisodeDetails"} ->
                        "episodedetails"
                  [] OTHER -> "movie"
    /\ (RecordRoundTrip /\ calc.in.nfo_type # "movie") =>
          /\ calc.out[1].root = calc.in.nfo_type
          /\ calc.out[2].raised = "no"
          /\ calc.out[2].data.nfo_type = calc.in.nfo_type
    /\ (RecordRoundTrip /\ calc.in.nfo_type = "movie") =>
          /\ calc.out[2].raised = "no"
          /\ calc.out[2].data.nfo_type = "movie"

\* a document with the root tag TVShow was parsed as a TV show
C29_Witness ==
    /\ DocumentParsed
    /\ calc.in.root = "TVShow"
    /\ calc.out[1].raised = "no"
    /\ calc.out[1].data.nfo_type = "tvshow"

(***************************************************************************)
(* Properties of BatchProcessor.apply (checked under SpecApply)            *)
(***************************************************************************)
Settled == task.success_count + task.failed_count

ApplyReturned == ret.op = "apply" /\ ret.val = "ok"

Terminal(st) == st \in {"completed", "failed"}

\* units whose success/failure increment is written and whose processed
\* increment is not yet written
Uncounted ==
    Cardinality({ci \in Callers \X (1..MaxUnits) :
                   /\ ci[2] <= Len(unit[ci[1]])
                   /\ unit[ci[1]][ci[2]].pc \in {"append", "done"}})
    + Cardinality({c \in Callers : call[c].pc = "inc_processed"})

NoApplyInProgress == \A c \in Callers : call[c].pc = "idle"

\* C1: when the only apply ever started on a task registered with zero
\* counters returns, processed_files equals the number K of files of its
\* list and success_count + failed_count equals K, whatever the interleaving
\* of the pool workers.
C1_NoLostUpdates ==
    (ApplyReturned /\ napplies = 1) =>
        /\ task.processed_files = ret.nfiles
        /\ Settled = ret.nfiles

\* a single apply over several files has returned, with successes and
\* failures among its files
C1_Witness ==
    /\ ApplyReturned
    /\ napplies = 1
    /\ ret.nfiles > 1
    /\ ret.ok > 0
    /\ ret.err > 0

\* C2 as stated: success_count + failed_count <= processed_files in every
\* reachable state, before, during and after apply.
C2_SettledLeProcessed == Settled <= task.processed_files

\* C2 amended: success_count + failed_count <= processed_files whenever no
\* apply is in progress on the task; during apply the sum exceeds
\* processed_files by exactly the number of units that have recorded their
\* outcome and have not yet been counted as processed.
C2_SettledLeProcessedAtRest ==
    /\ NoApplyInProgress => Settled <= task.processed_files
    /\ Settled = task.processed_files + Uncounted

\* an apply is under way and a unit has recorded its outcome ahead of the
\* processed count
C2_Witness ==
    /\ ~NoApplyInProgress
    /\ Settled > task.processed_files

\* C3: processed_files <= total_files in every reachable state, for any
\* sequence of apply calls on the task.
C3_ProcessedLeTotal == task.processed_files <= task.total_files

\* C4: whenever the status is Completed or Failed,
\* success_count + failed_count = processed_files.
C4_TerminalCountsAgree ==
    Terminal(task.status) => Settled = task.processed_files

\* C5: the status moves only Pending -> Running -> {Completed, Failed}, and
\* a status of Completed or Failed never changes again.
C5_StatusMachine ==
    [][/\ task.status = "pending" => task.status' \in {"pending", "running"}
       /\ task.status = "running" => task.status' \in {"running", "completed", "failed"}
       /\ Terminal(task.status) => task.status' = task.status]_vars

\* C6: when apply finishes a batch the status is Failed iff no file of that
\* batch succeeded and at least one file of that batch failed, and Completed
\* in every other case.
C6_FinalStatusOfBatch ==
    ApplyReturned =>
        task.status = IF ret.ok = 0 /\ ret.err > 0 THEN "failed" ELSE "completed"

\* caller c's apply call ends in this step
ApplyEnds(c) == call[c].pc # "idle" /\ call'[c].pc = "idle"

\* the file names at the head of the error strings
ErrorNames == {task.errors[k][1] : k \in 1..Len(task.errors)}

\* C15: a failing file never aborts the batch and nothing propagates out of
\* apply: an apply call that got past its argument checks ends only by
\* returning the task, after every file of its list has been processed
\* (each one counted as a success or as a failure of the call), with at
\* least as many failures and error strings recorded on the task as files of
\* the call failed; for the only apply on the task the task's success and
\* failure counts are those of the call and every failure has its string.
C15_FailureIsolation ==
    [][\A c \in Callers :
          ApplyEnds(c) =>
             /\ ret'.op = "apply"
             /\ ret'.caller = c
             /\ ret'.val = "ok"
             /\ ret'.ok + ret'.err = call[c].nfiles
             /\ task'.failed_count >= ret'.err
             /\ Len(task'.errors) >= ret'.err
             /\ napplies = 1 =>
                   /\ task'.success_count = ret'.ok
                   /\ task'.failed_count = ret'.err
                   /\ Len(task'.errors) = ret'.err]_vars

\* the only apply started has returned: the first file of its list failed
\* and the file after it was still processed, successfully
C15_Witness ==
    /\ ApplyReturned
    /\ napplies = 1
    /\ ret.nfiles = 2
    /\ ErrorNames = {1}
    /\ task.success_count = 1
    /\ task.processed_files = 2

\* units inside increment_failed between its two statements
AppendPending ==
    Cardinality({ci \in Callers \X (1..MaxUnits) :
                   /\ ci[2] <= Len(unit[ci[1]])
                   /\ unit[ci[1]][ci[2]].pc = "append"})

\* C18 as stated: len(errors) == failed_count in every reachable state of a
\* task created with empty errors and failed_count 0.
C18_ErrorsMatchFailed == Len(task.errors) = task.failed_count

\* C18 amended: one error string is appended per failed file, headed by that
\* file's name, in the same locked section as the failed_count increment:
\* len(errors) == failed_count in every state in which no thread is between
\* the two statements of increment_failed; a thread that is holds the counter
\* lock, is the only one, and failed_count is then one ahead of len(errors).
\* For the only apply on the task no file name heads two strings.
C18_ErrorsMatchFailedOutsideIncrement ==
    /\ Len(task.errors) + AppendPending = task.failed_count
    /\ AppendPending <= 1
    /\ AppendPending = 1 => _count_lock # NoOwner
    /\ \A k \in 1..Len(task.errors) : task.errors[k][1] \in 1..MaxUnits
    /\ napplies <= 1 => Cardinality(ErrorNames) = Len(task.errors)

\* a second file is failing: its failed_count increment is written and its
\* error string is yet to be appended after that of the first
C18_Witness ==
    /\ AppendPending = 1
    /\ Len(task.errors) = 1
    /\ task.failed_count = 2
    /\ napplies = 1

(***************************************************************************)
(* Properties of the shared pool (checked under SpecPoolFair)              *)
(***************************************************************************)
\* C16: once apply has marked the task Running, the task eventually becomes
\* Completed or Failed, also while units of other batches occupy workers of
\* the pool; and apply returns only after every unit of its list has
\* finished and been joined.
C16_RunsToCompletion ==
    /\ (task.status = "running") ~> Terminal(task.status)
    /\ [][\A c \in Callers :
            ApplyEnds(c) =>
               /\ Len(unit[c]) = call[c].nfiles
               /\ \A i \in 1..Len(unit[c]) : unit[c][i].pc = "joined"]_vars

\* the task is Running with a unit waiting in the queue while other batches
\* hold every worker of the pool
C16_Witness ==
    /\ task.status = "running"
    /\ others = MAX_WORKERS
    /\ \E c \in Callers : \E i \in 1..Len(unit[c]) : unit[c][i].pc = "queued"

(***************************************************************************)
(* Properties of the files of a batch (checked under SpecFile)             *)
(***************************************************************************)
\* the locals of the unit of the i-th file in the k-th apply call
UnitOf(k, i) == work[k][i]

\* C17: during apply a file is overwritten only by a unit that parsed it,
\* applied the mutation and whose resulting record passed validation (what
\* is written is that record, or the file is truncated by a failing write);
\* a file whose mutated record fails validation keeps its content, and when
\* the apply returns its failure is recorded on the task.
C17_WriteOnlyValidated ==
    /\ [][\A p \in Paths :
            disk'[p] # disk[p] =>
               \E i \in 1..Len(flist) :
                  /\ flist[i] = p
                  /\ napplies >= 1
                  /\ UnitOf(napplies, i).stage = "valid"
                  /\ UnitOf(napplies, i).data.kind = "nfo"
                  /\ ValidateNfoData(UnitOf(napplies, i).data)
                  /\ UnitOf(napplies, i).data =
                        ApplyField(disk[p], fargs.field, fargs.value, fargs.mode).data
                  /\ disk'[p] \in {FormatXml(UnitOf(napplies, i).data), Malformed}]_vars
    /\ [](\A k \in 1..MaxApplies : \A i \in 1..Len(flist) :
            UnitOf(k, i).res = "Validation failed" =>
               /\ disk[flist[i]] = disk0[flist[i]]
               /\ ~ValidateNfoData(ApplyField(disk0[flist[i]], fargs.field,
                                              fargs.value, fargs.mode).data)
               /\ (ApplyReturned /\ k = napplies) =>
                     /\ task.failed_count >= 1
                     /\ \E e \in 1..Len(task.errors) :
                           task.errors[e] = <<FileName(i), "Validation failed">>)

\* the apply of a batch has returned whose file has a year out of range:
\* the file is as it was and counted as failed
C17_Witness ==
    /\ ApplyReturned
    /\ napplies = 1
    /\ Len(flist) = 1
    /\ disk0[flist[1]] = BadYear
    /\ UnitOf(1, 1).res = "Validation failed"
    /\ disk = disk0
    /\ task.failed_count = 1
    /\ task.success_count = 0

\* C19: an apply that is rejected (unknown task id, or more than
\* MAX_FILES_PER_BATCH files) and a preview that is rejected (missing
\* directory, not a directory, scan depth exceeded, more than
\* MAX_FILES_PER_BATCH candidates) raise before any file-level work: no file
\* is parsed or written, no unit is submitted, and the task's status and
\* counters are unchanged.  apply is rejected for these two reasons only, so
\* a list of exactly MAX_FILES_PER_BATCH files for a registered task is not.
C19_StructuralFailuresFirst ==
    [][/\ (ret'.op = "apply" /\ ret'.val # "ok") =>
             /\ task' = task
             /\ disk' = disk
             /\ accessed' = accessed
             /\ unit' = unit
             /\ work' = work
             /\ call' = call
             /\ ret'.val = "ValueError" <=> _tasks[ret'.id] = NoTask
             /\ ret'.val = "RuntimeError" <=>
                   (_tasks[ret'.id] # NoTask /\ ret'.nfiles > 2000)
       /\ (ret'.op = "preview" /\ ret'.val # "ok") =>
             /\ task' = task
             /\ disk' = disk
             /\ accessed' = accessed
             /\ unit' = unit
             /\ call' = call
             /\ ret'.val = "FileNotFoundError" <=> ret'.dir.kind = "missing"
             /\ ret'.val = "ValueError" <=> ret'.dir.kind = "file"
             /\ ret'.val = "RuntimeError: depth" <=>
                   (ret'.dir.kind = "dir" /\ ret'.dir.depth > 50)
             /\ ret'.val = "RuntimeError: too many" <=>
                   (ret'.dir.kind = "dir" /\ ret'.dir.depth <= 50
                      /\ ret'.dir.nfo > 2000)
       /\ \A c \in Callers :
             (call[c].pc = "idle" /\ call'[c].pc = "set_status") =>
                 /\ call'[c].nfiles <= 2000
                 /\ task' = task
                 /\ disk' = disk
                 /\ accessed' = accessed]_vars

\* after a preview of a tree nested too deep was rejected, an apply with one
\* file more than the ceiling has been rejected too; no file was touched and
\* the task is as it was created
C19_Witness ==
    /\ ret.op = "apply"
    /\ ret.val = "RuntimeError"
    /\ ret.nfiles = MAX_FILES_PER_BATCH + 1
    /\ npreviews = 1
    /\ napplies = 0
    /\ accessed = [read |-> {}, written |-> {}]
    /\ task = NewTask
    /\ disk = disk0

\* C20: apply with field studio and mode append raises inside the per-file
\* unit: no unit of such a batch succeeds and the studio of every file
\* stays as it was.
C20_StudioAppendRaises ==
    (fargs.field = "studio" /\ fargs.mode = "append") =>
        /\ task.success_count = 0
        /\ \A p \in Paths :
              (disk0[p].kind = "nfo" /\ disk[p].kind = "nfo") =>
                  disk[p].studio = disk0[p].studio

(***************************************************************************)
(* Properties of the TaskManager (checked under SpecStore)                 *)
(***************************************************************************)
\* thread t evaluates the capacity gate of add in this step and goes on
GatePassed(t) == pc[t] = "idle" /\ pc'[t] = "add_insert"

\* an add is turned away by the capacity gate in this step
GateRaised ==
    /\ \E t \in Threads : pc[t] = "idle" /\ pc'[t] = "return"
    /\ ret'.op = "add"
    /\ ret'.val = "RuntimeError"

\* thread t executes the insertion of add in this step
Inserting(t) == pc[t] = "add_insert" /\ pc'[t] = "add_sweep"

\* C7: the store never holds more than MAX_CONCURRENT_TASKS tasks, under
\* any interleaving of add, delete and sweep calls of several threads.
C7_CapacityNeverExceeded == Len_tasks(_tasks) <= MAX_CONCURRENT_TASKS

\* an add has just filled the store to capacity
C7_Witness ==
    /\ Len_tasks(_tasks) = MAX_CONCURRENT_TASKS
    /\ \E t \in Threads : pc[t] = "add_sweep"

\* C8: an add on a store holding MAX_CONCURRENT_TASKS tasks first sweeps the
\* expired tasks; it raises iff none of the tasks was expired (the store
\* still holds MAX_CONCURRENT_TASKS tasks after the sweep); otherwise every
\* expired task is gone and the add goes on to insert the new task, which
\* the insertion puts into the store under its id.
C8_CapacityGate ==
    [][/\ (GateRaised /\ Len_tasks(_tasks) = MAX_CONCURRENT_TASKS) =>
              /\ ExpiredIds(_tasks, now) = {}
              /\ _tasks' = _tasks
       /\ \A t \in Threads :
            /\ (GatePassed(t) /\ Len_tasks(_tasks) = MAX_CONCURRENT_TASKS) =>
                  /\ ExpiredIds(_tasks, now) # {}
                  /\ ExpiredIds(_tasks', now) = {}
                  /\ \A i \in TaskIds \ ExpiredIds(_tasks, now) : _tasks'[i] = _tasks[i]
                  /\ Len_tasks(_tasks') < MAX_CONCURRENT_TASKS
            /\ Inserting(t) =>
                  /\ _tasks'[arg[t].task_id] = arg[t]
                  /\ \A i \in TaskIds \ {arg[t].task_id} : _tasks'[i] = _tasks[i]]_vars

\* an add has just been turned away by a store full of unexpired tasks
\* after the clock has advanced
C8_Witness ==
    /\ ret.op = "add"
    /\ ret.val = "RuntimeError"
    /\ Len_tasks(_tasks) = MAX_CONCURRENT_TASKS
    /\ now > TTL_SECONDS

\* C9 as stated: an add whose task id is already in the store replaces the
\* stored entry and leaves the number of stored tasks unchanged, in every
\* store state, a store of MAX_CONCURRENT_TASKS unexpired tasks included:
\* the gate neither raises nor removes anything, and the insertion
\* overwrites the entry.
C9_OverwriteExisting ==
    [][/\ (GateRaised /\ _tasks[ret'.task.task_id] # NoTask) => FALSE
       /\ \A t \in Threads :
            /\ (GatePassed(t) /\ _tasks[arg'[t].task_id] # NoTask) =>
                  _tasks' = _tasks
            /\ (Inserting(t) /\ _tasks[arg[t].task_id] # NoTask) =>
                  /\ _tasks' = [_tasks EXCEPT ![arg[t].task_id] = arg[t]]
                  /\ Len_tasks(_tasks') = Len_tasks(_tasks)]_vars

\* C9 amended: an add whose task id is already in the store is turned away
\* exactly when the store holds MAX_CONCURRENT_TASKS unexpired tasks, and
\* the store, the old entry included, then stays as it was; in every other
\* store state the add goes on, removing nothing below capacity, and its
\* insertion replaces the entry stored under the id, touches no other entry
\* and leaves the number of stored tasks unchanged.
C9_OverwriteUnlessFull ==
    [][/\ (GateRaised /\ _tasks[ret'.task.task_id] # NoTask) =>
              /\ Len_tasks(_tasks) = MAX_CONCURRENT_TASKS
              /\ ExpiredIds(_tasks, now) = {}
              /\ _tasks' = _tasks
       /\ \A t \in Threads :
            /\ (GatePassed(t) /\ _tasks[arg'[t].task_id] # NoTask) =>
                  /\ ~(/\ Len_tasks(_tasks) = MAX_CONCURRENT_TASKS
                       /\ ExpiredIds(_tasks, now) = {})
                  /\ Len_tasks(_tasks) < MAX_CONCURRENT_TASKS => _tasks' = _tasks
            /\ (Inserting(t) /\ _tasks[arg[t].task_id] # NoTask) =>
                  /\ _tasks' = [_tasks EXCEPT ![arg[t].task_id] = arg[t]]
                  /\ Len_tasks(_tasks') = Len_tasks(_tasks)]_vars

\* an add is being turned away although its id is in the store, under a
\* different task object
C9_Witness ==
    /\ ret.op = "add"
    /\ ret.val = "RuntimeError"
    /\ _tasks[ret.task.task_id] # NoTask
    /\ _tasks[ret.task.task_id] # ret.task

AddReturned == ret.op = "add" /\ ret.val = "ok"

\* C10 as stated: when add(task) returns without raising, the store maps
\* task.task_id to that task (a get that follows immediately returns it).
C10_AddThenGet == AddReturned => _tasks[ret.task.task_id] = ret.task

\* C10 amended: when add(task) returns without raising, the store maps
\* task.task_id to that task, unless the task is
\* already expired and the add is one whose count is a multiple of
\* CLEANUP_INTERVAL: then the periodic sweep of that add has removed it and
\* its id is absent.
C10_AddThenGetUnlessSwept ==
    AddReturned =>
        \/ _tasks[ret.task.task_id] = ret.task
        \/ /\ Expired(ret.task, now)
           /\ _add_count % CLEANUP_INTERVAL = 0
           /\ _tasks[ret.task.task_id] = NoTask

\* an add whose count is a multiple of CLEANUP_INTERVAL is returning after
\* the clock has advanced, and its unexpired task is in the store
C10_Witness ==
    /\ AddReturned
    /\ _add_count % CLEANUP_INTERVAL = 0
    /\ ~Expired(ret.task, now)
    /\ now > TTL_SECONDS
    /\ _tasks[ret.task.task_id] = ret.task

\* a thread enters and completes the body of the named operation in this step
Calls(op) ==
    /\ \E t \in Threads : pc[t] = "idle" /\ pc'[t] = "return"
    /\ ret'.op = op

C12_ReadsAndDeleteFrame ==
    [][/\ Calls("get") => _tasks' = _tasks
       /\ Calls("list_all") => _tasks' = _tasks
       /\ Calls("delete") =>
            /\ ret'.val = (_tasks[ret'.id] # NoTask)
            /\ _tasks'[ret'.id] = NoTask
            /\ \A i \in TaskIds \ {ret'.id} : _tasks'[i] = _tasks[i]
            /\ ret'.val = FALSE => _tasks' = _tasks]_vars

\* a delete that removed its task is returning, and other tasks are stored
C12_Witness ==
    /\ ret.op = "delete"
    /\ ret.val = TRUE
    /\ _tasks[ret.id] = NoTask
    /\ Len_tasks(_tasks) > 1

\* thread t executes the last step of a successful add
SweepStep(t) == pc[t] = "add_sweep" /\ pc'[t] = "return"

\* C13: every add that brings the number of successful adds to a multiple
\* of CLEANUP_INTERVAL runs a TTL sweep after it has inserted its task (the
\* sweep sees the store with the new task in it); an add rejected for
\* capacity does not advance the number, a successful one advances it by one.
C13_PeriodicSweep ==
    [][/\ GateRaised => _add_count' = _add_count
       /\ \A t \in Threads :
            /\ GatePassed(t) => _add_count' = _add_count
            /\ Inserting(t) => _add_count' = _add_count + 1
            /\ SweepStep(t) =>
                  /\ _add_count' = _add_count
                  /\ _tasks[arg[t].task_id] = arg[t]
                  /\ _add_count % 100 = 0 =>
                        /\ ExpiredIds(_tasks', now) = {}
                        /\ \A i \in TaskIds \ ExpiredIds(_tasks, now) :
                              _tasks'[i] = _tasks[i]]_vars

\* the add that made the count a multiple of CLEANUP_INTERVAL is returning
\* and its sweep has removed expired tasks, the one just inserted among them,
\* from a store below capacity
C13_Witness ==
    /\ AddReturned
    /\ _add_count = CLEANUP_INTERVAL
    /\ _tasks[ret.task.task_id] = NoTask
    /\ Len_tasks(_tasks) > 0
    /\ Len_tasks(_tasks) < MAX_CONCURRENT_TASKS - 1

\* the task is stored and was created no more than TTL_SECONDS ago
Unexpired(id) ==
    /\ _tasks[id] # NoTask
    /\ now - _tasks[id].created_at <= TTL_SECONDS

\* C38: a stored task that is not older than the TTL (one younger than the
\* TTL in particular) leaves the store, or is replaced in it, only by a
\* delete of its id or by the insertion of an add of the same id: neither
\* the sweep of an add at capacity, nor the periodic sweep, nor
\* cleanup_expired removes it.
C38_UnexpiredStay ==
    [][\A id \in TaskIds :
          (Unexpired(id) /\ _tasks'[id] # _tasks[id]) =>
             \/ Calls("delete") /\ ret'.id = id /\ _tasks'[id] = NoTask
             \/ \E t \in Threads :
                   Inserting(t) /\ arg[t].task_id = id /\ _tasks'[id] = arg[t]]_vars

\* a sweep is returning that removed expired tasks and left in the store a
\* task created exactly TTL_SECONDS ago
C38_Witness ==
    /\ ret.op = "cleanup_expired"
    /\ ret.val > 0
    /\ \E id \in TaskIds :
          /\ Unexpired(id)
          /\ now - _tasks[id].created_at = TTL_SECONDS

\* the thread leaves an add that raised
RejectedReturns(t) ==
    /\ pc[t] = "return"
    /\ pc'[t] = "idle"
    /\ ret.op = "add"
    /\ ret.val = "RuntimeError"

\* C39: an add that is rejected for capacity leaves the registry as it was
\* before the call: from its entry to its return no task is removed (its
\* sweep found nothing expired), none is inserted or replaced, the task it
\* was handed is not stored under its id unless it already was, and the
\* counter of successful adds is not advanced.
C39_RejectedAddChangesNothing ==
    [][/\ GateRaised =>
            /\ _tasks' = _tasks
            /\ _add_count' = _add_count
            /\ CleanupExpiredCount(_tasks, now) = 0
            /\ arg' = arg
       /\ \A t \in Threads :
            RejectedReturns(t) =>
               /\ _tasks' = _tasks
               /\ _add_count' = _add_count
               /\ arg' = arg]_vars

\* an add of a new id has been rejected by a store full of tasks that are
\* not expired, after the clock has advanced; the task is not in the store
C39_Witness ==
    /\ ret.op = "add"
    /\ ret.val = "RuntimeError"
    /\ _tasks[ret.task.task_id] = NoTask
    /\ Len_tasks(_tasks) = MAX_CONCURRENT_TASKS
    /\ now > TTL_SECONDS
    /\ \A t \in Threads : arg[t] = NoTask

(***************************************************************************)
(* Properties of TaskManager.__new__ (checked under SpecSingleton)         *)
(***************************************************************************)
\* C14: every call of TaskManager(), from whatever thread, returns one and
\* the same instance, under any interleaving of concurrent first-time
\* constructions: one object is allocated at most, every reference returned
\* is that object, and there is one task map at most, so what is added
\* through one reference is in the map every other reference reads.
C14_OneInstance ==
    /\ Len(heap) <= 1
    /\ Cardinality(returned) <= 1
    /\ \A t \in Threads : ref[t] # NoObject => ref[t] = _instance
    /\ \A t, u \in Threads : (ref[t] # NoObject /\ ref[u] # NoObject) => ref[t] = ref[u]

\* a thread has been handed the instance while another, which found no
\* instance at its first test, has yet to enter the lock
C14_Witness ==
    \E t, u \in Threads :
        /\ ref[t] # NoObject
        /\ cpc[u] = "acquire"
        /\ Len(heap) = 1

\* C35: under any interleaving of concurrent first-time constructions, a
\* reference that TaskManager() has returned is to an object whose task
\* map, TTL, registry lock and add counter have all been assigned.
C35_ReturnedInitialised ==
    \A t \in Threads :
       ref[t] # NoObject =>
          heap[ref[t]] = {Attributes[k] : k \in 1..Len(Attributes)}

(***************************************************************************)
(* The order of the counter increments (checked under SpecApply)           *)
(***************************************************************************)
\* the step writes the processed counter
ProcessedWritten == task'.processed_files # task.processed_files

\* the step writes the success or the failure counter
OutcomeWritten ==
    \/ task'.success_count # task.success_count
    \/ task'.failed_count # task.failed_count

\* C34: in every reachable state of the applies on a task registered with
\* zero counters, processed_files <= success_count + failed_count.  The
\* success or failure increment is written by the pool worker of a unit;
\* the processed increment is written by a coordinating thread, inside
\* increment_processed, for a unit that has completed, and finds
\* processed_files below the sum.
C34_ProcessedAfterOutcome ==
    /\ [](task.processed_files <= Settled)
    /\ [][(ProcessedWritten =>
              /\ task'.processed_files = task.processed_files + 1
              /\ task.processed_files < Settled
              /\ ~OutcomeWritten
              /\ \E c \in Callers :
                    /\ call[c].pc = "inc_processed"
                    /\ _count_lock = <<c, 0>>
                    /\ call[c].joined <= Settled)
          /\ (OutcomeWritten =>
                \E c \in Callers : \E i \in 1..Len(unit[c]) :
                   /\ unit[c][i].pc = "locked"
                   /\ _count_lock = <<c, i>>)]_vars

\* both units of an apply have recorded their outcome and the first of
\* them has been counted as processed
C34_Witness ==
    /\ task.processed_files = 1
    /\ Settled = 2
    /\ \E c \in Callers : call[c].pc = "join" /\ call[c].joined = 1

(***************************************************************************)
(* Eviction of a task that is being applied (checked under SpecEvict)      *)
(***************************************************************************)
\* the step is cleanup_expired's, made by the thread
Sweeps(t) == pc[t] = "idle" /\ pc'[t] = "return" /\ ret'.op = "cleanup_expired"

\* C37: a sweep removes exactly the tasks created more than TTL_SECONDS
\* (1800) seconds ago, whatever their status, the task whose apply is
\* Running included; get then returns not-found for the task; and the apply
\* in flight, which holds the task object, ends as every apply does, with a
\* terminal status and every file of its list counted on the task.
C37_EvictedWhileRunning ==
    /\ [][\A t \in Threads :
            Sweeps(t) =>
               \A id \in TaskIds :
                  _tasks[id] # NoTask =>
                     (_tasks'[id] = NoTask <=>
                         _tasks[id].created_at < now - TTL_SECONDS)]_vars
    /\ [](ret.op = "get" => ret.val = _tasks[ret.id])
    /\ [][ApplyEnds(PoolCaller) =>
            /\ Terminal(task'.status)
            /\ task'.processed_files >= call[PoolCaller].nfiles
            /\ Settled' >= call[PoolCaller].nfiles]_vars

\* the only apply on the task has returned it Completed or Failed, with its
\* files counted, and the store, swept after the apply had found the task,
\* no longer holds it
C37_Witness ==
    /\ ApplyReturned
    /\ napplies = 1
    /\ ret.nfiles >= 1
    /\ _tasks[RegisteredId] = NoTask
    /\ Terminal(task.status)
    /\ task.processed_files = ret.nfiles

(***************************************************************************)
(* Properties of apply on its frozen file list (checked under SpecList)    *)
(***************************************************************************)
\* the paths of the file list
ListedPaths == {flist[i] : i \in 1..Len(flist)}

\* C33: apply reads and writes only files that occur in the file list it is
\* given, and every file outside the list, the one added to the directory
\* after the preview included, is as it was before the batch.
C33_FrozenFileList ==
    /\ accessed.read \subseteq ListedPaths
    /\ accessed.written \subseteq ListedPaths
    /\ \A p \in (DOMAIN disk) \ ListedPaths : disk[p] = disk0[p]

\* an apply has returned that rewrote a listed file; the file added after
\* the preview, which parses and validates, was neither read nor written
C33_Witness ==
    /\ ApplyReturned
    /\ MaxScanned \notin ListedPaths
    /\ disk0[MaxScanned] = Full
    /\ disk[MaxScanned] = Full
    /\ 1 \in accessed.written
    /\ disk[1] # disk0[1]
    /\ MaxScanned \notin accessed.read

\* the units of the applies so far that succeeded on the path
SucceededOn(p) ==
    {ki \in (1..napplies) \X (1..Len(flist)) :
        flist[ki[2]] = p /\ work[ki[1]][ki[2]].res = "ok"}

\* the entries of the list field the batch edits
EditedList(content) ==
    IF fargs.field = "genre" THEN content.genres ELSE content.directors

\* C36: when an apply in append mode has returned, every file of its list
\* holds one added entry per unit that succeeded on it, also when the path
\* occurs twice in the list.
C36_NoLostEdits ==
    (ApplyReturned /\ fargs.mode = "append" /\ fargs.field \in {"genre", "director"}) =>
        \A p \in ListedPaths :
           disk[p].kind = "nfo" =>
              Len(EditedList(disk[p])) =
                 Len(EditedList(disk0[p])) + Cardinality(SucceededOn(p))

\* the file holds a year, a rating or a runtime that its validator rejects
InvalidNumbers(content) ==
    /\ content.kind = "nfo"
    /\ \/ ~ValidateYear(content.year)
       \/ ~ValidateRating(content.rating)
       \/ ~ValidateRuntime(content.runtime)

\* the entries of the file list whose file has such a value before the batch
InvalidEntries == {i \in 1..Len(flist) : InvalidNumbers(disk0[flist[i]])}

\* C40: whichever of studio, genre or director the batch edits, and in
\* whichever mode, apply fails for every file whose year, rating or runtime
\* is invalid: the file keeps its content, a unit of it that has parsed it
\* never reaches the save and ends with "Validation failed" (with the
\* ValueError of _apply_field when the mode is not one of the field), and
\* when an apply has returned every such entry of each apply so far is counted in
\* failed_count and none in success_count.
C40_InvalidNumbersFail ==
    fargs.field \in {"studio", "genre", "director"} =>
       /\ \A i \in InvalidEntries :
             /\ disk[flist[i]] = disk0[flist[i]]
             /\ \A k \in 1..MaxApplies :
                   /\ work[k][i].stage # "valid"
                   /\ work[k][i].res \in {"none", "ValueError", "Validation failed"}
                   /\ work[k][i].stage = "finished" =>
                         work[k][i].res =
                            IF ApplyField(disk0[flist[i]], fargs.field,
                                          fargs.value, fargs.mode).raised
                            THEN "ValueError" ELSE "Validation failed"
       /\ ApplyReturned =>
             /\ task.failed_count >= napplies * Cardinality(InvalidEntries)
             /\ task.success_count <=
                   napplies * (Len(flist) - Cardinality(InvalidEntries))

\* an apply that edits the studio has returned on a list that names twice a
\* file whose rating is above 10, or whose runtime is 0, and whose year is
\* valid: the file is as it was, both entries are counted as failed
C40_Witness ==
    /\ ApplyReturned
    /\ fargs.field = "studio"
    /\ Len(flist) = 2
    /\ InvalidEntries = {1, 2}
    /\ ValidateYear(disk0[flist[1]].year)
    /\ disk = disk0
    /\ task.failed_count = 2
    /\ task.success_count = 0
    /\ task.status = "failed"

====
